---- MODULE Spec2Model ----
(***************************************************************************)
(* Scan / reconcile / score pipeline of poke-arbitrage.                    *)
(*                                                                         *)
(* Money is an integer number of cents (Numeric(10, 2) columns), a list    *)
(* median is kept in half cents.  Time is counted in ticks of HoursPerTick *)
(* hours; every window of the code is compared in hours.  A title is the   *)
(* sequence of its whitespace-separated tokens.  The columns handle,       *)
(* product_url and image_url are copied from the product exactly like      *)
(* title and are not carried separately.                                   *)
(***************************************************************************)
EXTENDS Integers, Sequences, FiniteSets, Bags, TLC

VARIABLES clock, search_queries, listings, feed, pass,
          sold_benchmarks, opportunities, bench, score, median_io, celery

vars == <<clock, search_queries, listings, feed, pass,
          sold_benchmarks, opportunities, bench, score, median_io, celery>>

----------------------------------------------------------------------------
(* Bounds of the exploration *)

MaxClock == 1
MaxFetchFailures == 2

MaxScoreClock == 5

HoursPerTick == 6

----------------------------------------------------------------------------
(* Program constants *)

max_pages == 30
max_retries == 3
price_floor_aud == 3000
price_ceiling_aud == 300000
arbitrage_threshold_pct == 85
cutoff_listing_hours == 24
cutoff_bench_hours == 24
stale_hours == 6
sold_benchmark_min_age_hours == 24
sold_benchmark_max_queries_per_run == 8

cherry_require_in_stock == TRUE
leo_require_in_stock == TRUE

Stores == {"cherry", "leo"}

\* settings.cherry_collection_handle; (leo_psa_collection_handle, leo_cgc_collection_handle)
Collections(s) == IF s = "cherry" THEN <<"pokemon-singles">> ELSE <<"psa", "cgc">>

None == "None"

----------------------------------------------------------------------------
(* Generic helpers *)

Max(a, b) == IF a >= b THEN a ELSE b

RECURSIVE Flatten(_)
Flatten(qq) == IF qq = <<>> THEN <<>> ELSE Head(qq) \o Flatten(Tail(qq))

----------------------------------------------------------------------------
(* Title heuristics *)

Upper(tok) ==
    CASE tok = "Pikachu" -> "PIKACHU"
      [] tok = "Eevee" -> "EEVEE"
      [] OTHER -> tok

Lower(tok) ==
    CASE tok = "PSA" -> "psa"
      [] tok = "CGC" -> "cgc"
      [] tok = "PRISTINE" -> "pristine"
      [] tok = "JAPANESE" -> "japanese"
      [] tok = "Pikachu" -> "pikachu"
      [] tok = "Eevee" -> "eevee"
      [] OTHER -> tok

LowerAll(t) == [i \in 1..Len(t) |-> Lower(t[i])]

\* tokens made of digits only, with their number of digits
Digits(tok) == CASE tok = "10" -> 2 [] tok = "9" -> 1 [] OTHER -> 0

HasPair(t, a, b) == \E i \in 1..(Len(t) - 1) : Upper(t[i]) = a /\ Upper(t[i + 1]) = b

HasTriple(t, a, b, c) ==
    \E i \in 1..(Len(t) - 2) : Upper(t[i]) = a /\ Upper(t[i + 1]) = b /\ Upper(t[i + 2]) = c

HasTok(t, a) == \E i \in 1..Len(t) : Upper(t[i]) = a

_is_psa10(title) == HasPair(title, "PSA", "10") \/ HasTok(title, "PSA10")

_is_cgc10(title) ==
    \/ HasPair(title, "CGC", "10")
    \/ HasTok(title, "CGC10")
    \/ HasTriple(title, "CGC", "PRISTINE", "10")

\* cherry: grader and grade from the title
_detect_grading(title) ==
    IF _is_psa10(title) THEN [grader |-> "PSA", grade |-> 10]
    ELSE IF _is_cgc10(title) THEN [grader |-> "CGC", grade |-> 10]
    ELSE [grader |-> None, grade |-> 0]

\* leo adapter: grader and grade from the title, else from the collection
LeoDetectGrading(title, collection_handle) ==
    IF HasPair(title, "PSA", "10") \/ HasTok(title, "PSA10") THEN [grader |-> "PSA", grade |-> 10]
    ELSE IF HasPair(title, "PSA", "9") \/ HasTok(title, "PSA9") THEN [grader |-> "PSA", grade |-> 9]
    ELSE IF HasPair(title, "CGC", "10") \/ HasTok(title, "CGC10") THEN [grader |-> "CGC", grade |-> 10]
    ELSE IF HasTriple(title, "CGC", "PRISTINE", "10") THEN [grader |-> "CGC", grade |-> 10]
    ELSE IF HasPair(title, "CGC", "9") \/ HasTok(title, "CGC9") THEN [grader |-> "CGC", grade |-> 9]
    ELSE IF collection_handle = "psa" THEN [grader |-> "PSA", grade |-> 0]
    ELSE IF collection_handle = "cgc" THEN [grader |-> "CGC", grade |-> 0]
    ELSE [grader |-> None, grade |-> 0]

_is_grade_10(grader, grade) == grade = 10

_is_jp_title(title) == HasTok(title, "JAPANESE") \/ HasTok(title, "JPN") \/ HasTok(title, "JP")

StripLanguagePrefix(t) ==
    IF Len(t) > 1 /\ Upper(t[1]) \in {"JAPANESE", "CHINESE", "KOREAN"} THEN Tail(t) ELSE t

StripInventoryNumber(t) ==
    IF Len(t) > 1 /\ Digits(t[Len(t)]) >= 2 THEN SubSeq(t, 1, Len(t) - 1) ELSE t

\* cherry: (query_text, card_name) of a title
CherryDerive(title) ==
    LET t1 == StripLanguagePrefix(title)
        t2 == IF Len(t1) > 2 /\ Upper(t1[1]) = "PSA" /\ t1[2] = "10" THEN SubSeq(t1, 3, Len(t1))
              ELSE IF Len(t1) > 1 /\ Upper(t1[1]) = "PSA10" THEN Tail(t1)
              ELSE t1
        t3 == StripInventoryNumber(t2)
    IN  [query_text |-> LowerAll(t3), card_name |-> IF t3 # <<>> THEN t3 ELSE title]

\* re.sub of the grade patterns PSA <digits>, CGC [PRISTINE] <digits> anywhere in the title
RECURSIVE StripGrades(_)
StripGrades(t) ==
    IF t = <<>> THEN <<>>
    ELSE IF Upper(t[1]) \in {"PSA", "CGC"} /\ Len(t) > 1 /\ Digits(t[2]) > 0
         THEN StripGrades(SubSeq(t, 3, Len(t)))
    ELSE IF Upper(t[1]) = "CGC" /\ Len(t) > 2 /\ Upper(t[2]) = "PRISTINE" /\ Digits(t[3]) > 0
         THEN StripGrades(SubSeq(t, 4, Len(t)))
    ELSE IF Upper(t[1]) \in {"PSA10", "PSA9", "CGC10", "CGC9"}
         THEN StripGrades(Tail(t))
    ELSE <<t[1]>> \o StripGrades(Tail(t))

\* leo: (query_text, card_name) of a title
LeoDerive(title) ==
    LET t1 == StripLanguagePrefix(title)
        t2 == StripGrades(t1)
        t3 == StripInventoryNumber(t2)
    IN  [query_text |-> LowerAll(t3), card_name |-> IF t3 # <<>> THEN t3 ELSE title]

----------------------------------------------------------------------------
(* Feeds *)

Product(pid, vid, title, price, stock) ==
    [product_id |-> pid, variant_id |-> vid, title |-> title, price_aud |-> price, in_stock |-> stock]

\* one page of a collection as the adapter returns it; past the last page the list is empty
fetch_collection_products(s, c, page) ==
    LET pages == feed[s][c]
        raw == IF page <= Len(pages) THEN pages[page] ELSE <<>>
    IN  IF s = "cherry" THEN
            [i \in 1..Len(raw) |-> [prod |-> raw[i], grader |-> None, grade |-> 0]]
        ELSE
            \* _parse_product drops a product whose grader or grade is unknown
            LET idx == {i \in 1..Len(raw) :
                            LET g == LeoDetectGrading(raw[i].title, Collections(s)[c])
                            IN  g.grader # None /\ g.grade # 0}
                F[k \in 0..Len(raw)] ==
                    IF k = 0 THEN <<>>
                    ELSE IF k \in idx
                         THEN LET g == LeoDetectGrading(raw[k].title, Collections(s)[c])
                              IN  Append(F[k - 1], [prod |-> raw[k], grader |-> g.grader, grade |-> g.grade])
                         ELSE F[k - 1]
            IN  F[Len(raw)]

----------------------------------------------------------------------------
(* Persistence: tables are sequences of rows, the row id is the index *)

SameKey(a, b) == a.product_id = b.product_id /\ a.variant_id = b.variant_id

\* uq_cherry_product_variant / uq_leo_product_variant: TRUE when inserting the
\* pending rows next to the flushed rows would break the constraint
NoUniqueConstraint(rows, pending) == FALSE

UniqueViolation(rows, pending) ==
    \E i \in 1..Len(pending) :
        \/ \E j \in 1..Len(rows) : SameKey(pending[i], rows[j])
        \/ \E j \in 1..Len(pending) : j # i /\ SameKey(pending[i], pending[j])

\* the bulk UPDATE ... SET is_active = false WHERE is_active of a reconcile pass
DeactivateAll(rows) == [i \in 1..Len(rows) |-> [rows[i] EXCEPT !.is_active = FALSE]]

ActiveCount(rows) == Cardinality({i \in 1..Len(rows) : rows[i].is_active})

\* Session.flush(): the pending inserts reach the transaction, or IntegrityError
Flush(st) ==
    IF UniqueViolation(st.rows, st.pending) THEN [st EXCEPT !.err = TRUE]
    ELSE [st EXCEPT !.rows = @ \o st.pending, !.pending = <<>>]

\* .filter(query_text == ...).filter(language == ...).first(); 0 when there is none
FindQuery(queries, query_text, lang) ==
    LET hits == {i \in 1..Len(queries) :
                    queries[i].query_text = query_text /\ queries[i].language = lang}
    IN  IF hits = {} THEN 0 ELSE CHOOSE i \in hits : \A j \in hits : i <= j

\* .filter(product_id == ...).filter(variant_id == ...).first() with autoflush off:
\* only flushed rows are visible; 0 when there is none
FindListing(rows, prod) ==
    LET hits == {i \in 1..Len(rows) : SameKey(rows[i], prod)}
    IN  IF hits = {} THEN 0 ELSE CHOOSE i \in hits : \A j \in hits : i <= j

RequireInStock(s) == IF s = "cherry" THEN cherry_require_in_stock ELSE leo_require_in_stock

\* grader and grade the reconcile loop uses for one fetched item
Grading(s, item) ==
    IF s = "cherry" THEN _detect_grading(item.prod.title)
    ELSE [grader |-> item.grader, grade |-> item.grade]

Derive(s, title) == IF s = "cherry" THEN CherryDerive(title) ELSE LeoDerive(title)

\* the inclusion filters of the loop body: stock, grade 10, non-empty query text
Accepted(s, item) ==
    /\ ~(RequireInStock(s) /\ ~item.prod.in_stock)
    /\ LET g == Grading(s, item)
       IN  IF s = "cherry" THEN g.grader # None /\ g.grade = 10
           ELSE _is_grade_10(g.grader, g.grade)
    /\ Derive(s, item.prod.title).query_text # <<>>

\* "if existing:" overwrite every mutable column, stamp last_seen_at, reactivate
UpdateExistingKeepInactive(row, sq, prod, lang, g, now) ==
    [row EXCEPT !.search_query_id = sq, !.title = prod.title, !.price_aud = prod.price_aud,
                !.in_stock = prod.in_stock, !.language = lang, !.grader = g.grader,
                !.grade = g.grade, !.last_seen_at = now]

UpdateExistingRestamp(row, sq, prod, lang, g, now) ==
    [row EXCEPT !.search_query_id = sq, !.title = prod.title, !.price_aud = prod.price_aud,
                !.in_stock = prod.in_stock, !.language = lang, !.grader = g.grader,
                !.grade = g.grade, !.last_seen_at = now, !.scraped_at = now,
                !.is_active = TRUE]

UpdateExistingKeepsPrice(row, sq, prod, lang, g, now) ==
    [row EXCEPT !.search_query_id = sq, !.title = prod.title,
                !.in_stock = prod.in_stock, !.language = lang, !.grader = g.grader,
                !.grade = g.grade, !.last_seen_at = now, !.is_active = TRUE]

UpdateExisting(row, sq, prod, lang, g, now) ==
    [row EXCEPT !.search_query_id = sq,
                !.title = prod.title,
                !.price_aud = prod.price_aud,
                !.in_stock = prod.in_stock,
                !.language = lang,
                !.grader = g.grader,
                !.grade = g.grade,
                !.last_seen_at = now,
                !.is_active = TRUE]

\* "else:" the row to insert
NewListing(sq, prod, lang, g, now) ==
    [search_query_id |-> sq,
     product_id |-> prod.product_id,
     variant_id |-> prod.variant_id,
     title |-> prod.title,
     price_aud |-> prod.price_aud,
     in_stock |-> prod.in_stock,
     language |-> lang,
     grader |-> g.grader,
     grade |-> g.grade,
     is_active |-> TRUE,
     scraped_at |-> now,
     last_seen_at |-> now]

\* body of "for prod in batch" for one item
UpsertProduct(st, s, item, now) ==
    IF ~Accepted(s, item) THEN st
    ELSE
      LET prod == item.prod
          g == Grading(s, item)
          lang == IF _is_jp_title(prod.title) THEN "JP" ELSE "EN"
          d == Derive(s, prod.title)
          found == FindQuery(st.queries, d.query_text, lang)
          \* db.add(sq); db.flush() when the identity is new
          st1 == IF found # 0 THEN st
                 ELSE Flush([st EXCEPT
                        !.queries = Append(@, [query_text |-> d.query_text,
                                               card_name |-> d.card_name,
                                               language |-> lang,
                                               is_active |-> TRUE]),
                        !.created_queries = @ + 1])
          sq == IF found # 0 THEN found ELSE Len(st1.queries)
          existing == FindListing(st1.rows, prod)
      IN  IF st1.err THEN st1
          ELSE IF existing # 0 THEN
            [st1 EXCEPT
               !.matched_count = @ + 1,
               !.rows[existing] = UpdateExisting(@, sq, prod, lang, g, now),
               !.reactivated_count = IF st1.rows[existing].is_active THEN @ ELSE @ + 1,
               !.updated_count = @ + 1]
          ELSE
            [st1 EXCEPT
               !.matched_count = @ + 1,
               !.pending = Append(@, NewListing(sq, prod, lang, g, now)),
               !.new_count = @ + 1]

RECURSIVE ProcessBatch(_, _, _, _)
ProcessBatch(st, s, batch, now) ==
    IF batch = <<>> \/ st.err THEN st
    ELSE ProcessBatch(UpsertProduct(st, s, Head(batch), now), s, Tail(batch), now)

----------------------------------------------------------------------------
(* Reconcile pass of one storefront: fetch_cherry_listings / fetch_leo_listings *)

IdlePass ==
    [pc |-> "idle", collection |-> 1, page |-> 1, now |-> 0, dirty |-> FALSE,
     prev_active |-> 0, reactivated_count |-> 0, new_count |-> 0, updated_count |-> 0,
     matched_count |-> 0, created_queries |-> 0, removed |-> 0,
     retries |-> 0, status |-> "none", pre |-> <<>>, repeat |-> FALSE,
     fetch_failures |-> 0, sleeping |-> FALSE, in_page |-> FALSE, seen |-> <<>>]

\* the session's view of the store's table: the bulk deactivation is part of the
\* open transaction until the first commit
View(s) == IF pass[s].dirty THEN DeactivateAll(listings[s]) ELSE listings[s]

\* the page the loop is about to fetch
CurrentBatch(s) == fetch_collection_products(s, pass[s].collection, pass[s].page)

LoopEnded(s) == pass[s].page > max_pages \/ CurrentBatch(s) = <<>>

StartPass(s) ==
    /\ pass[s].pc \in {"idle", "done", "retry"}
    /\ LET retries == IF pass[s].pc = "retry" THEN pass[s].retries ELSE 0
           repeat == pass[s].pc = "done" /\ pass[s].status = "success"
       IN  IF s = "cherry" /\ ~(\E i \in 1..Len(search_queries) : search_queries[i].is_active)
           THEN pass' = [pass EXCEPT ![s] = [IdlePass EXCEPT !.pc = "done", !.status = "no_queries"]]
           ELSE pass' = [pass EXCEPT ![s] = [IdlePass EXCEPT
                            !.pc = "running",
                            !.now = clock,
                            !.dirty = TRUE,
                            !.prev_active = ActiveCount(listings[s]),
                            !.retries = retries,
                            !.pre = listings[s],
                            !.repeat = repeat]]
    /\ UNCHANGED <<clock, search_queries, listings, feed,
                   sold_benchmarks, opportunities, bench, score, median_io, celery>>

\* the page fetch raises: a warning is logged and the task sleeps; the loop
\* keeps no count of the attempts, fetch_failures counts the warnings of the pass
\* up to MaxFetchFailures
FetchFailSkipsPage(s) ==
    /\ pass[s].pc = "running"
    /\ ~pass[s].sleeping
    /\ pass[s].page <= max_pages
    /\ pass' = [pass EXCEPT ![s].sleeping = TRUE,
                            ![s].page = @ + 1,
                            ![s].fetch_failures = IF @ < MaxFetchFailures THEN @ + 1 ELSE @]
    /\ UNCHANGED <<clock, search_queries, listings, feed,
                   sold_benchmarks, opportunities, bench, score, median_io, celery>>

FetchFail(s) ==
    /\ pass[s].pc = "running"
    /\ ~pass[s].sleeping
    /\ pass[s].page <= max_pages
    /\ pass' = [pass EXCEPT ![s].sleeping = TRUE,
                            ![s].fetch_failures = IF @ < MaxFetchFailures THEN @ + 1 ELSE @]
    /\ UNCHANGED <<clock, search_queries, listings, feed,
                   sold_benchmarks, opportunities, bench, score, median_io, celery>>

\* time.sleep(5); continue: the same page is fetched again
FetchRetry(s) ==
    /\ pass[s].pc = "running"
    /\ pass[s].sleeping
    /\ pass' = [pass EXCEPT ![s].sleeping = FALSE]
    /\ UNCHANGED <<clock, search_queries, listings, feed,
                   sold_benchmarks, opportunities, bench, score, median_io, celery>>

ProcessPageOneTransaction(s) ==
    /\ pass[s].pc = "running"
    /\ ~pass[s].sleeping
    /\ ~LoopEnded(s)
    /\ LET st0 == [queries |-> search_queries, rows |-> View(s), pending |-> <<>>,
                   reactivated_count |-> pass[s].reactivated_count,
                   new_count |-> pass[s].new_count,
                   updated_count |-> pass[s].updated_count,
                   matched_count |-> pass[s].matched_count,
                   created_queries |-> pass[s].created_queries,
                   err |-> FALSE]
           st1 == ProcessBatch(st0, s, CurrentBatch(s), pass[s].now)
           st2 == IF st1.err THEN st1 ELSE Flush(st1)
       IN  IF st2.err
           THEN /\ pass' = [pass EXCEPT ![s] =
                        IF pass[s].retries < max_retries
                        THEN [IdlePass EXCEPT !.pc = "retry", !.retries = pass[s].retries + 1,
                                              !.status = "retrying"]
                        ELSE [IdlePass EXCEPT !.pc = "done", !.status = "failed"]]
                /\ listings' = [listings EXCEPT ![s] = pass[s].pre]
                /\ UNCHANGED search_queries
           ELSE /\ search_queries' = st2.queries
                /\ listings' = [listings EXCEPT ![s] = st2.rows]
                /\ pass' = [pass EXCEPT ![s] = [@ EXCEPT
                        !.page = @ + 1,
                        !.dirty = FALSE,
                        !.reactivated_count = st2.reactivated_count,
                        !.new_count = st2.new_count,
                        !.updated_count = st2.updated_count,
                        !.matched_count = st2.matched_count,
                        !.created_queries = st2.created_queries]]
    /\ UNCHANGED <<clock, feed, sold_benchmarks, opportunities, bench, score, median_io, celery>>

ProcessPageAllStores(s) ==
    /\ pass[s].pc = "running"
    /\ ~pass[s].sleeping
    /\ ~LoopEnded(s)
    /\ LET st0 == [queries |-> search_queries, rows |-> View(s), pending |-> <<>>,
                   reactivated_count |-> pass[s].reactivated_count,
                   new_count |-> pass[s].new_count,
                   updated_count |-> pass[s].updated_count,
                   matched_count |-> pass[s].matched_count,
                   created_queries |-> pass[s].created_queries,
                   err |-> FALSE]
           st1 == ProcessBatch(st0, s, CurrentBatch(s), pass[s].now)
           st2 == IF st1.err THEN st1 ELSE Flush(st1)
       IN  IF st2.err
           THEN /\ pass' = [pass EXCEPT ![s] =
                        IF pass[s].retries < max_retries
                        THEN [IdlePass EXCEPT !.pc = "retry", !.retries = pass[s].retries + 1,
                                              !.status = "retrying"]
                        ELSE [IdlePass EXCEPT !.pc = "done", !.status = "failed"]]
                /\ UNCHANGED <<search_queries, listings>>
           ELSE /\ search_queries' = st2.queries
                /\ listings' = [o \in Stores |-> IF o = s THEN st2.rows ELSE DeactivateAll(listings[o])]
                /\ pass' = [pass EXCEPT ![s] = [@ EXCEPT
                        !.page = @ + 1,
                        !.dirty = FALSE,
                        !.reactivated_count = st2.reactivated_count,
                        !.new_count = st2.new_count,
                        !.updated_count = st2.updated_count,
                        !.matched_count = st2.matched_count,
                        !.created_queries = st2.created_queries]]
    /\ UNCHANGED <<clock, feed, sold_benchmarks, opportunities, bench, score, median_io, celery>>

\* a non-empty page: upsert every product, commit; an exception leads to self.retry
ProcessPage(s) ==
    /\ pass[s].pc = "running"
    /\ ~pass[s].sleeping
    /\ ~LoopEnded(s)
    /\ LET st0 == [queries |-> search_queries, rows |-> View(s), pending |-> <<>>,
                   reactivated_count |-> pass[s].reactivated_count,
                   new_count |-> pass[s].new_count,
                   updated_count |-> pass[s].updated_count,
                   matched_count |-> pass[s].matched_count,
                   created_queries |-> pass[s].created_queries,
                   err |-> FALSE]
           st1 == ProcessBatch(st0, s, CurrentBatch(s), pass[s].now)
           st2 == IF st1.err THEN st1 ELSE Flush(st1)
       IN  IF st2.err
           THEN /\ pass' = [pass EXCEPT ![s] =
                        IF pass[s].retries < max_retries
                        THEN [IdlePass EXCEPT !.pc = "retry", !.retries = pass[s].retries + 1,
                                              !.status = "retrying"]
                        ELSE [IdlePass EXCEPT !.pc = "done", !.status = "failed"]]
                /\ UNCHANGED <<search_queries, listings>>
           ELSE /\ search_queries' = st2.queries
                /\ listings' = [listings EXCEPT ![s] = st2.rows]
                /\ pass' = [pass EXCEPT ![s] = [@ EXCEPT
                        !.page = @ + 1,
                        !.dirty = FALSE,
                        !.reactivated_count = st2.reactivated_count,
                        !.new_count = st2.new_count,
                        !.updated_count = st2.updated_count,
                        !.matched_count = st2.matched_count,
                        !.created_queries = st2.created_queries]]
    /\ UNCHANGED <<clock, feed, sold_benchmarks, opportunities, bench, score, median_io, celery>>

\* an empty page (or the page cap) ends a collection that is not the last one
EndCollection(s) ==
    /\ pass[s].pc = "running"
    /\ ~pass[s].sleeping
    /\ LoopEnded(s)
    /\ pass[s].collection < Len(Collections(s))
    /\ pass' = [pass EXCEPT ![s].collection = @ + 1, ![s].page = 1]
    /\ UNCHANGED <<clock, search_queries, listings, feed,
                   sold_benchmarks, opportunities, bench, score, median_io, celery>>

\* the last collection ends: removed count, return, db.close() rolls back what
\* was not committed
FinishPass(s) ==
    /\ pass[s].pc = "running"
    /\ ~pass[s].sleeping
    /\ LoopEnded(s)
    /\ pass[s].collection = Len(Collections(s))
    /\ pass' = [pass EXCEPT ![s] = [@ EXCEPT
                    !.pc = "done",
                    !.status = "success",
                    !.dirty = FALSE,
                    !.removed = Max(pass[s].prev_active - pass[s].reactivated_count, 0)]]
    /\ UNCHANGED <<clock, search_queries, listings, feed,
                   sold_benchmarks, opportunities, bench, score, median_io, celery>>

----------------------------------------------------------------------------
(* Benchmark engine: fetch_sold_benchmarks *)

\* hours on the wall clock at tick t
Hours(t) == t * HoursPerTick

RECURSIVE InsertSorted(_, _)
InsertSorted(v, q) ==
    IF q = <<>> THEN <<v>>
    ELSE IF v <= Head(q) THEN <<v>> \o q
    ELSE <<Head(q)>> \o InsertSorted(v, Tail(q))

\* sorted(values)
RECURSIVE sorted(_)
sorted(values) ==
    IF values = <<>> THEN <<>> ELSE InsertSorted(Head(values), sorted(Tail(values)))

\* the same arithmetic on the list as it arrives
MedianUnsorted(values) ==
    IF values = <<>> THEN 0
    ELSE LET n == Len(values)
             mid == n \div 2
         IN  IF n % 2 = 1 THEN 2 * values[mid + 1] ELSE values[mid] + values[mid + 1]

\* the median of a list of cent amounts, in half cents; vals is indexed from 1
_median_dec(values) ==
    IF values = <<>> THEN 0
    ELSE LET vals == sorted(values)
             n == Len(vals)
             mid == n \div 2
         IN  IF n % 2 = 1 THEN 2 * vals[mid + 1] ELSE vals[mid] + vals[mid + 1]

\* Decimal.quantize(Decimal("0.01")) of an amount in half cents: ROUND_HALF_EVEN
quantize(m2) ==
    LET lo == m2 \div 2
    IN  IF m2 % 2 = 0 THEN lo ELSE IF lo % 2 = 0 THEN lo ELSE lo + 1

OutOfScopeCeilingInclusive(m2) == m2 > 2 * price_ceiling_aud \/ m2 < 2 * price_floor_aud

\* "if market >= ceiling or market < floor": the benchmark is filtered out
OutOfScope(m2) == m2 >= 2 * price_ceiling_aud \/ m2 < 2 * price_floor_aud

\* f"ebay_browse_{grader}_{grade}"
data_source(grader, grade) == <<"ebay_browse", grader, grade>>

\* .order_by(calculated_at.desc()).first() over the rows of one identity and tag;
\* 0 when there is none
LatestBenchmark(rows, qid, ds) ==
    LET hits == {i \in 1..Len(rows) : rows[i].search_query_id = qid /\ rows[i].data_source = ds}
    IN  IF hits = {} THEN 0
        ELSE CHOOSE i \in hits : \A j \in hits :
                \/ rows[j].calculated_at < rows[i].calculated_at
                \/ rows[j].calculated_at = rows[i].calculated_at /\ j <= i

CombinationsOfAllListings(qid) ==
    UNION { { <<listings[s][i].grader, listings[s][i].grade>> :
                i \in {j \in 1..Len(listings[s]) : listings[s][j].search_query_id = qid} } :
            s \in Stores }

\* the (grader, grade) pairs of the active listings of both storefronts for a query
_get_grader_grade_combinations(qid) ==
    UNION { { <<listings[s][i].grader, listings[s][i].grade>> :
                i \in {j \in 1..Len(listings[s]) :
                          listings[s][j].search_query_id = qid /\ listings[s][j].is_active} } :
            s \in Stores }

\* every order in which a result set without ORDER BY (or a Python set) may be walked
Orders(S) ==
    {q \in [1..Cardinality(S) -> S] : \A i, j \in 1..Cardinality(S) : q[i] = q[j] => i = j}

\* ids of the active identities that have an active listing in either storefront
CandidateQueries ==
    {qid \in 1..Len(search_queries) :
        /\ search_queries[qid].is_active
        /\ \E s \in Stores : \E i \in 1..Len(listings[s]) :
              listings[s][i].is_active /\ listings[s][i].search_query_id = qid}

GraderToken(grader, grade) ==
    CASE grader = "PSA" /\ grade = 10 -> "PSA10"
      [] grader = "CGC" /\ grade = 10 -> "CGC10"
      [] OTHER -> "?"

GradeToken(grade) == CASE grade = 10 -> "10" [] grade = 9 -> "9" [] OTHER -> "?"

\* the title and language checks applied to one comparable
Comparable(item, grader, grade, language) ==
    /\ CASE grader = "PSA" ->
              HasPair(item.title, "PSA", GradeToken(grade)) \/ HasTok(item.title, GraderToken(grader, grade))
         [] grader = "CGC" ->
              \/ HasPair(item.title, "CGC", GradeToken(grade))
              \/ HasTok(item.title, GraderToken(grader, grade))
              \/ HasTriple(item.title, "CGC", "PRISTINE", GradeToken(grade))
         [] OTHER -> TRUE
    /\ IF language = "JP" THEN _is_jp_title(item.title) ELSE ~_is_jp_title(item.title)

\* prices: the prices of the comparables that pass the checks, in response order
RECURSIVE ComparablePrices(_, _, _, _)
ComparablePrices(resp, grader, grade, language) ==
    IF resp = <<>> THEN <<>>
    ELSE (IF Comparable(Head(resp), grader, grade, language) THEN <<Head(resp).price_aud>> ELSE <<>>)
         \o ComparablePrices(Tail(resp), grader, grade, language)

RECURSIVE SeqMin(_)
SeqMin(q) == IF Len(q) = 1 THEN q[1] ELSE LET m == SeqMin(Tail(q)) IN IF q[1] <= m THEN q[1] ELSE m

RECURSIVE SeqMax(_)
SeqMax(q) == IF Len(q) = 1 THEN q[1] ELSE Max(q[1], SeqMax(Tail(q)))

IdleBench ==
    [pc |-> "idle", queue |-> <<>>, q |-> 0, combos |-> <<>>, now |-> 0,
     processed |-> 0, stored |-> 0, filtered |-> 0, errors |-> 0, status |-> "none",
     prices |-> <<>>, before |-> 0, read |-> <<>>, rate_limited |-> FALSE]

\* the candidate the inner loop is at
Candidate == [q |-> bench.q, grader |-> Head(bench.combos)[1], grade |-> Head(bench.combos)[2]]

HasRecentBenchmarkOfAnyTag(c) ==
    \E i \in 1..Len(sold_benchmarks) :
        /\ sold_benchmarks[i].search_query_id = c.q
        /\ Hours(sold_benchmarks[i].calculated_at) >=
              Hours(bench.now) - sold_benchmark_min_age_hours

\* "latest.calculated_at.timestamp() >= recent_cutoff"
HasRecentBenchmark(c) ==
    LET latest == LatestBenchmark(sold_benchmarks, c.q, data_source(c.grader, c.grade))
    IN  /\ latest # 0
        /\ Hours(sold_benchmarks[latest].calculated_at) >=
              Hours(bench.now) - sold_benchmark_min_age_hours

\* the task starts: candidate identities, cutoff
BenchStart ==
    /\ bench.pc \in {"idle", "done"}
    /\ IF CandidateQueries = {}
       THEN bench' = [IdleBench EXCEPT !.pc = "done",
                         !.status = IF \E s \in Stores : ActiveCount(listings[s]) > 0
                                    THEN "no_queries" ELSE "no_listings"]
       ELSE \E order \in Orders(CandidateQueries) :
                bench' = [IdleBench EXCEPT !.pc = "running", !.queue = order, !.now = clock]
    /\ UNCHANGED <<clock, search_queries, listings, feed, pass,
                   sold_benchmarks, opportunities, score, median_io, celery>>

\* "for q in queries": the next identity and its combinations
BenchNextQuery ==
    /\ bench.pc = "running"
    /\ bench.combos = <<>>
    /\ bench.queue # <<>>
    /\ bench.processed < sold_benchmark_max_queries_per_run
    /\ \E order \in Orders(_get_grader_grade_combinations(Head(bench.queue))) :
          bench' = [bench EXCEPT !.q = Head(bench.queue), !.queue = Tail(bench.queue),
                                 !.combos = order, !.read = listings]
    /\ UNCHANGED <<clock, search_queries, listings, feed, pass,
                   sold_benchmarks, opportunities, score, median_io, celery>>

\* a candidate with a benchmark younger than the minimum age is skipped
BenchSkip ==
    /\ bench.pc = "running"
    /\ bench.combos # <<>>
    /\ HasRecentBenchmark(Candidate)
    /\ bench' = [bench EXCEPT !.combos = Tail(@)]
    /\ UNCHANGED <<clock, search_queries, listings, feed, pass,
                   sold_benchmarks, opportunities, score, median_io, celery>>

\* the row a computation stores
NewBenchmark(c, prices, now) ==
    [search_query_id |-> c.q,
     market_price |-> quantize(_median_dec(prices)),
     data_source |-> data_source(c.grader, c.grade),
     sample_size |-> Len(prices),
     min_price |-> SeqMin(prices),
     max_price |-> SeqMax(prices),
     calculated_at |-> now]

OverwriteBenchmark(rows, row) ==
    LET same == {i \in 1..Len(rows) : /\ rows[i].search_query_id = row.search_query_id
                                       /\ rows[i].data_source = row.data_source}
    IN  IF same = {} THEN Append(rows, row)
        ELSE [i \in 1..Len(rows) |-> IF i \in same THEN row ELSE rows[i]]

\* db.add(bench); db.commit(): the table after the insert
StoreBenchmark(rows, row) == Append(rows, row)

BenchComputeNoBreak(resp) ==
    /\ bench.pc = "running"
    /\ bench.combos # <<>>
    /\ ~HasRecentBenchmark(Candidate)
    /\ LET c == Candidate
           prices == ComparablePrices(resp, c.grader, c.grade, search_queries[c.q].language)
       IN  IF prices = <<>> \/ OutOfScope(_median_dec(prices))
           THEN /\ bench' = [bench EXCEPT !.processed = @ + 1, !.combos = Tail(@),
                                          !.filtered = @ + 1,
                                          !.prices = prices, !.before = Len(sold_benchmarks)]
                /\ UNCHANGED sold_benchmarks
           ELSE /\ sold_benchmarks' = StoreBenchmark(sold_benchmarks, NewBenchmark(c, prices, clock))
                /\ bench' = [bench EXCEPT !.processed = @ + 1, !.combos = Tail(@),
                                          !.stored = @ + 1,
                                          !.prices = prices, !.before = Len(sold_benchmarks)]
    /\ UNCHANGED <<clock, search_queries, listings, feed, pass, opportunities, score, median_io, celery>>

\* one candidate is queried: the comparables are filtered, the median is taken
\* and stored when it is in scope; the insert is committed at once
BenchCompute(resp) ==
    /\ bench.pc = "running"
    /\ bench.combos # <<>>
    /\ ~HasRecentBenchmark(Candidate)
    /\ LET c == Candidate
           prices == ComparablePrices(resp, c.grader, c.grade, search_queries[c.q].language)
       IN  IF bench.processed + 1 > sold_benchmark_max_queries_per_run
           THEN /\ bench' = [bench EXCEPT !.processed = @ + 1, !.combos = <<>>]
                /\ UNCHANGED sold_benchmarks
           ELSE IF prices = <<>> \/ OutOfScope(_median_dec(prices))
           THEN /\ bench' = [bench EXCEPT !.processed = @ + 1, !.combos = Tail(@),
                                          !.filtered = @ + 1,
                                          !.prices = prices, !.before = Len(sold_benchmarks)]
                /\ UNCHANGED sold_benchmarks
           ELSE /\ sold_benchmarks' = StoreBenchmark(sold_benchmarks, NewBenchmark(c, prices, clock))
                /\ bench' = [bench EXCEPT !.processed = @ + 1, !.combos = Tail(@),
                                          !.stored = @ + 1,
                                          !.prices = prices, !.before = Len(sold_benchmarks)]
    /\ UNCHANGED <<clock, search_queries, listings, feed, pass, opportunities, score, median_io, celery>>

BenchFetchErrorAborts ==
    /\ bench.pc = "running"
    /\ bench.combos # <<>>
    /\ ~HasRecentBenchmark(Candidate)
    /\ bench' = [bench EXCEPT !.processed = @ + 1, !.errors = @ + 1, !.combos = <<>>,
                              !.queue = <<>>, !.pc = "done", !.status = "retry", !.read = <<>>]
    /\ UNCHANGED <<clock, search_queries, listings, feed, pass,
                   sold_benchmarks, opportunities, score, median_io, celery>>

\* the marketplace request raises (HTTP status error or any other exception):
\* rollback, count the error, go on with the next candidate
BenchFetchError ==
    /\ bench.pc = "running"
    /\ bench.combos # <<>>
    /\ ~HasRecentBenchmark(Candidate)
    /\ IF bench.processed + 1 > sold_benchmark_max_queries_per_run
       THEN bench' = [bench EXCEPT !.processed = @ + 1, !.combos = <<>>]
       ELSE bench' = [bench EXCEPT !.processed = @ + 1, !.combos = Tail(@), !.errors = @ + 1,
                                   !.prices = <<>>, !.before = Len(sold_benchmarks)]
    /\ UNCHANGED <<clock, search_queries, listings, feed, pass,
                   sold_benchmarks, opportunities, score, median_io, celery>>

\* the marketplace answers with a rate-limit status: the client raises on every
\* status other than 200 and the loop handles it like any other exception
BenchRateLimited ==
    /\ bench.pc = "running"
    /\ bench.combos # <<>>
    /\ ~HasRecentBenchmark(Candidate)
    /\ IF bench.processed + 1 > sold_benchmark_max_queries_per_run
       THEN bench' = [bench EXCEPT !.processed = @ + 1, !.combos = <<>>]
       ELSE bench' = [bench EXCEPT !.processed = @ + 1, !.combos = Tail(@), !.errors = @ + 1,
                                   !.prices = <<>>, !.before = Len(sold_benchmarks),
                                   !.rate_limited = TRUE]
    /\ UNCHANGED <<clock, search_queries, listings, feed, pass,
                   sold_benchmarks, opportunities, score, median_io, celery>>

\* both loops are over: the task returns its counters
BenchFinish ==
    /\ bench.pc = "running"
    /\ bench.combos = <<>>
    /\ bench.queue = <<>> \/ bench.processed >= sold_benchmark_max_queries_per_run
    /\ bench' = [bench EXCEPT !.pc = "done", !.status = "success", !.read = <<>>]
    /\ UNCHANGED <<clock, search_queries, listings, feed, pass,
                   sold_benchmarks, opportunities, score, median_io, celery>>

----------------------------------------------------------------------------
(* Opportunity scorer: identify_cherry_opportunities *)

DiscountOverStore(market_price, store_price) ==
    (2 * (market_price - store_price) * 10000 + store_price) \div (2 * store_price)

\* ((market_price - store_price) / market_price) * 100 as the Numeric(5, 2) column
\* keeps it: hundredths of a percent, rounded half up
discount(market_price, store_price) ==
    (2 * (market_price - store_price) * 10000 + market_price) \div (2 * market_price)

profit(market_price, store_price) == market_price - store_price

\* "store_price < threshold_price" with threshold_price = market_price * threshold
BelowThreshold(store_price, market_price) ==
    store_price * 100 < market_price * arbitrage_threshold_pct

\* uq_cherry_opportunity_listing: TRUE when the pending inserts break it
OpportunityViolation(rows, pending) ==
    \E i \in 1..Len(pending) :
        \/ \E j \in 1..Len(rows) : rows[j].cherry_listing_id = pending[i].cherry_listing_id
        \/ \E j \in 1..Len(pending) :
              j # i /\ pending[j].cherry_listing_id = pending[i].cherry_listing_id

\* the listings the pass walks: active and seen inside the window, by id
ScoredListings(rows, now) ==
    {i \in 1..Len(rows) :
        /\ rows[i].is_active
        /\ Hours(rows[i].last_seen_at) >= Hours(now) - cutoff_listing_hours}

ScoringBenchmarkOfAnyTag(benchmarks, listing, now) ==
    LET hits == {i \in 1..Len(benchmarks) :
                    /\ benchmarks[i].search_query_id = listing.search_query_id
                    /\ Hours(benchmarks[i].calculated_at) >= Hours(now) - cutoff_bench_hours}
    IN  IF hits = {} THEN 0 ELSE CHOOSE i \in hits : \A j \in hits : j <= i

\* the benchmark the pass compares a listing with: the latest of the listing's
\* identity and grade tag, if it was calculated inside the window; 0 otherwise
ScoringBenchmark(benchmarks, listing, now) ==
    LET latest == LatestBenchmark(benchmarks, listing.search_query_id,
                                  data_source(listing.grader, listing.grade))
    IN  IF latest # 0 /\ Hours(benchmarks[latest].calculated_at) >= Hours(now) - cutoff_bench_hours
        THEN latest ELSE 0

DetectedAnew(row, query, listing, market_price, store_price, now) ==
    [row EXCEPT !.card_name = query.card_name,
                !.product_title = listing.title,
                !.store_price = store_price,
                !.market_price = market_price,
                !.discount_percentage = discount(market_price, store_price),
                !.potential_profit = profit(market_price, store_price),
                !.in_stock = listing.in_stock,
                !.discovered_at = now,
                !.last_verified_at = now]

\* the attributes a detection writes, on a refresh and on a creation alike
Detected(row, query, listing, market_price, store_price, now) ==
    [row EXCEPT !.card_name = query.card_name,
                !.product_title = listing.title,
                !.store_price = store_price,
                !.market_price = market_price,
                !.discount_percentage = discount(market_price, store_price),
                !.potential_profit = profit(market_price, store_price),
                !.in_stock = listing.in_stock,
                !.last_verified_at = now]

\* st.session holds the rows as the ORM objects carry them, st.dirty the ids of
\* the modified ones, st.pending the added ones; the lookup reads the table
\* (autoflush is off) and only finds an active row
_create_or_update(st, query, lid, listing, market_price, store_price, now) ==
    LET hits == {i \in 1..Len(st.rows) :
                    st.rows[i].cherry_listing_id = lid /\ st.rows[i].is_active}
        existing == IF hits = {} THEN 0 ELSE CHOOSE i \in hits : \A j \in hits : i <= j
    IN  IF existing # 0
        THEN [st EXCEPT !.session[existing] =
                            Detected(@, query, listing, market_price, store_price, now),
                        !.dirty = @ \cup {existing},
                        !.opportunities_found = @ + 1]
        ELSE [st EXCEPT !.pending = Append(@,
                            Detected([cherry_listing_id |-> lid,
                                      search_query_id |-> listing.search_query_id,
                                      card_name |-> <<>>, product_title |-> <<>>,
                                      store_price |-> 0, market_price |-> 0,
                                      discount_percentage |-> 0, potential_profit |-> 0,
                                      in_stock |-> TRUE, is_active |-> TRUE,
                                      discovered_at |-> now, last_verified_at |-> now],
                                     query, listing, market_price, store_price, now)),
                        !.opportunities_found = @ + 1]

\* body of "for listing in listings" for the listing with id lid
ScoreListing(st, lid, now) ==
    LET listing == listings["cherry"][lid]
        latest == ScoringBenchmark(sold_benchmarks, listing, now)
    IN  IF cherry_require_in_stock /\ ~listing.in_stock THEN st
        ELSE IF latest = 0 THEN [st EXCEPT !.listings_checked = @ + 1]
        ELSE IF BelowThreshold(listing.price_aud, sold_benchmarks[latest].market_price)
        THEN _create_or_update([st EXCEPT !.listings_checked = @ + 1],
                               search_queries[listing.search_query_id], lid, listing,
                               sold_benchmarks[latest].market_price, listing.price_aud, now)
        ELSE [st EXCEPT !.listings_checked = @ + 1]

RECURSIVE ScoreListings(_, _, _)
ScoreListings(st, ids, now) ==
    IF ids = {} THEN st
    ELSE LET lid == CHOOSE i \in ids : \A j \in ids : i <= j
         IN  ScoreListings(ScoreListing(st, lid, now), ids \ {lid}, now)

DeactivateUnlistedOnly(rows, now) ==
    [i \in 1..Len(rows) |->
        IF rows[i].is_active /\ ~listings["cherry"][rows[i].cherry_listing_id].is_active
        THEN [rows[i] EXCEPT !.is_active = FALSE] ELSE rows[i]]

DeactivateUnverifiedOnly(rows, now) ==
    [i \in 1..Len(rows) |->
        IF rows[i].is_active /\ Hours(rows[i].last_verified_at) < Hours(now) - stale_hours
        THEN [rows[i] EXCEPT !.is_active = FALSE] ELSE rows[i]]

\* the two bulk UPDATEs of the sweep, on the rows of the table: not verified
\* inside the staleness window, then listing no longer active
_deactivate_stale(rows, now) ==
    LET stale == [i \in 1..Len(rows) |->
                    IF rows[i].is_active /\ Hours(rows[i].last_verified_at) < Hours(now) - stale_hours
                    THEN [rows[i] EXCEPT !.is_active = FALSE] ELSE rows[i]]
    IN  [i \in 1..Len(rows) |->
            IF stale[i].is_active /\ ~listings["cherry"][stale[i].cherry_listing_id].is_active
            THEN [stale[i] EXCEPT !.is_active = FALSE] ELSE stale[i]]

\* db.commit(): the modified objects are written over the swept rows (an UPDATE
\* carries the attributes that were set, is_active is not one of them), the added
\* objects are inserted
Commit(swept, st) ==
    [i \in 1..Len(swept) |->
        IF i \in st.dirty THEN [st.session[i] EXCEPT !.is_active = swept[i].is_active]
        ELSE swept[i]] \o st.pending

IdleScore ==
    [pc |-> "idle", status |-> "none", now |-> 0, retries |-> 0,
     opportunities_found |-> 0, listings_checked |-> 0]

\* one scoring pass, a single transaction: an IntegrityError at the commit
\* leaves the table as it was and hands the task to self.retry
ScorePass ==
    /\ score.pc \in {"idle", "done", "retry"}
    /\ LET now == clock
           st0 == [rows |-> opportunities, session |-> opportunities, dirty |-> {},
                   pending |-> <<>>, opportunities_found |-> 0, listings_checked |-> 0]
           st1 == ScoreListings(st0, ScoredListings(listings["cherry"], now), now)
           swept == _deactivate_stale(opportunities, now)
           retries == IF score.pc = "retry" THEN score.retries ELSE 0
           read == [IdleScore EXCEPT !.now = now,
                                     !.opportunities_found = st1.opportunities_found,
                                     !.listings_checked = st1.listings_checked]
       IN  IF OpportunityViolation(opportunities, st1.pending)
           THEN /\ score' = IF retries < max_retries
                            THEN [read EXCEPT !.pc = "retry", !.status = "retrying",
                                              !.retries = retries + 1]
                            ELSE [read EXCEPT !.pc = "done", !.status = "failed"]
                /\ UNCHANGED opportunities
           ELSE /\ opportunities' = Commit(swept, st1)
                /\ score' = [read EXCEPT !.pc = "done", !.status = "success"]
    /\ UNCHANGED <<clock, search_queries, listings, feed, pass,
                   sold_benchmarks, bench, median_io, celery>>

----------------------------------------------------------------------------
(* Environment: storefront feeds and the passage of time *)

CherryProducts ==
    { Product(101, 1, <<"PSA", "10", "Pikachu">>, 10000, TRUE),
      Product(102, 1, <<"CGC", "10", "Eevee">>, 10000, TRUE),
      Product(102, 1, <<"Eevee", "PSA", "10">>, 10000, FALSE) }

LeoProducts ==
    { Product(201, 1, <<"Pikachu", "PSA", "10">>, 10000, TRUE),
      Product(201, 1, <<"JAPANESE", "Pikachu", "CGC", "10">>, 12750, TRUE),
      Product(201, 1, <<"Pikachu">>, 10000, TRUE) }

Products(s) == IF s = "cherry" THEN CherryProducts ELSE LeoProducts

\* every way to cut a product sequence into non-empty pages
RECURSIVE Pagings(_)
Pagings(q) ==
    IF q = <<>> THEN {<<>>}
    ELSE UNION { { <<SubSeq(q, 1, j)>> \o rest : rest \in Pagings(SubSeq(q, j + 1, Len(q))) } :
                 j \in 1..Len(q) }

\* every way to spread a product sequence over n collections, in order
RECURSIVE Spreads(_, _)
Spreads(q, n) ==
    IF n = 1 THEN { <<pg>> : pg \in Pagings(q) }
    ELSE UNION { { <<pg>> \o rest : pg \in Pagings(SubSeq(q, 1, j)),
                                    rest \in Spreads(SubSeq(q, j + 1, Len(q)), n - 1) } :
                 j \in 0..Len(q) }

\* the catalogues considered: every sequence of FeedSizes products, paged and
\* spread over the collections in every way
FeedSizes == 0..2

FeedsFrom(P, n) == UNION { Spreads(q, n) : q \in UNION { [1..k -> P] : k \in FeedSizes } }

CherryFeeds == FeedsFrom(CherryProducts, 1)

LeoFeeds == FeedsFrom(LeoProducts, 2)

Feeds(s) == IF s = "cherry" THEN CherryFeeds ELSE LeoFeeds

EmptyFeed(s) == [c \in 1..Len(Collections(s)) |-> <<>>]

\* the storefront's catalogue changes between two passes
SetFeed(s, F) ==
    /\ pass[s].pc \in {"idle", "done"}
    /\ \E f \in F :
        /\ f # feed[s]
        /\ feed' = [feed EXCEPT ![s] = f]
    /\ pass' = [pass EXCEPT ![s] = IdlePass]
    /\ UNCHANGED <<clock, search_queries, listings,
                   sold_benchmarks, opportunities, bench, score, median_io, celery>>

\* in one behaviour of the reconciler specification only one storefront carries products
OthersEmpty(s) == \A o \in Stores \ {s} : feed[o] = EmptyFeed(o) /\ listings[o] = <<>>

\* one tick is hours long, a pass lasts minutes (task_time_limit): the clock
\* moves between passes
Tick(limit) ==
    /\ clock < limit
    /\ \A s \in Stores : pass[s].pc # "running"
    /\ bench.pc # "running"
    /\ clock' = clock + 1
    /\ UNCHANGED <<search_queries, listings, feed, pass,
                   sold_benchmarks, opportunities, bench, score, median_io, celery>>

----------------------------------------------------------------------------
(* The task runner: Celery beat, the broker queue and the worker processes *)

worker_concurrency == 2
task_time_limit == 300
task_interval_seconds == 1800
retry_countdown == 60

\* seconds of wall time per step of the task runner's clock
SecondsPerTick == 30

\* latest time of the task runner's clock and number of manual scan requests
MaxCeleryTicks == 3
MaxScans == 1

Ticks(seconds) == (seconds + SecondsPerTick - 1) \div SecondsPerTick

Workers == 1..worker_concurrency

\* the name of the reconcile task of a storefront
ReconcileTask(s) == IF s = "cherry" THEN "fetch_cherry_listings" ELSE "fetch_leo_listings"

\* a task message: apply_async(kwargs, countdown) at time t
Message(task, t, countdown, accepted) ==
    [task |-> task, eta |-> t + Ticks(countdown), retries |-> 0, accepted |-> accepted]

\* a worker process that executes no task
FreeSlot == [task |-> "none", started |-> 0, retries |-> 0]

\* beat has not fired yet, nothing is queued, every worker process is free
IdleCelery ==
    [now |-> 0, beat_due |-> 0, queue |-> EmptyBag,
     slot |-> [w \in Workers |-> FreeSlot], scans |-> 0]

----------------------------------------------------------------------------
(* Specification of the listing reconciler *)

\* app/seeds.py: the database is either fresh or seeded with base queries
SeedQueries ==
    << [query_text |-> <<"charizard">>, card_name |-> <<"Charizard">>,
        language |-> "EN", is_active |-> TRUE] >>

Quiet ==
    /\ sold_benchmarks = <<>>
    /\ opportunities = <<>>
    /\ bench = IdleBench
    /\ score = IdleScore

Init ==
    /\ clock = 0
    /\ search_queries \in {<<>>, SeedQueries}
    /\ listings = [s \in Stores |-> <<>>]
    /\ feed = [s \in Stores |-> EmptyFeed(s)]
    /\ pass = [s \in Stores |-> IdlePass]
    /\ Quiet
    /\ median_io = <<>>
    /\ celery = IdleCelery

Next ==
    \/ Tick(MaxClock)
    \/ \E s \in Stores : OthersEmpty(s) /\ SetFeed(s, Feeds(s))
    \/ \E s \in Stores : StartPass(s)
    \/ \E s \in Stores : ProcessPage(s)
    \/ \E s \in Stores : EndCollection(s)
    \/ \E s \in Stores : FinishPass(s)

Spec == Init /\ [][Next]_vars

----------------------------------------------------------------------------
(* Specification of the scoring pipeline: Cherry reconciler, benchmark engine *)
(* and scorer over one card                                                  *)

ScoreProducts ==
    { Product(101, 1, <<"PSA", "10", "Pikachu">>, 10000, TRUE),
      Product(101, 1, <<"PSA", "10", "Pikachu">>, 12750, TRUE),
      Product(102, 1, <<"Eevee", "PSA", "10">>, 10000, FALSE) }

\* the catalogue holds one product on one page
ScoreFeeds == { << << <<p>> >> >> : p \in ScoreProducts }

MarketItem(title, price) == [title |-> title, price_aud |-> price]

\* what the marketplace answers: one comparable of the card
ScoreResponses ==
    { << MarketItem(<<"Pikachu", "PSA", "10">>, m) >> : m \in {15000, 11000, 17500} }

InitScore == Init /\ search_queries = SeedQueries

\* The beat schedule runs a cycle every task_interval_seconds and staggers its
\* tasks (countdown 0, 120 and 210 seconds): reconcile, then benchmarks, then
\* scoring; a cycle may miss any of them.  A retry comes 60 seconds after the
\* failure, inside the cycle.
Rested == pass["cherry"].pc = "idle" /\ bench.pc = "idle" /\ score.pc = "idle"

\* the cycle is over: the results of its tasks are dropped
NextCycle ==
    /\ pass["cherry"].pc \in {"idle", "done"}
    /\ bench.pc \in {"idle", "done"}
    /\ score.pc \in {"idle", "done"}
    /\ ~Rested
    /\ pass' = [pass EXCEPT !["cherry"] = IdlePass]
    /\ bench' = IdleBench
    /\ score' = IdleScore
    /\ UNCHANGED <<clock, search_queries, listings, feed,
                   sold_benchmarks, opportunities, median_io, celery>>

NextScore ==
    \/ Rested /\ Tick(MaxScoreClock)
    \/ Rested /\ SetFeed("cherry", ScoreFeeds)
    \/ bench.pc = "idle" /\ score.pc = "idle" /\ StartPass("cherry")
    \/ ProcessPage("cherry")
    \/ FinishPass("cherry")
    \/ pass["cherry"].pc \in {"idle", "done"} /\ score.pc = "idle" /\ BenchStart
    \/ BenchNextQuery
    \/ BenchSkip
    \/ \E resp \in ScoreResponses : BenchCompute(resp)
    \/ BenchFetchError
    \/ BenchFinish
    \/ /\ pass["cherry"].pc \in {"idle", "done"}
       /\ bench.pc \in {"idle", "done"}
       /\ score.pc \in {"idle", "retry"}
       /\ ScorePass
    \/ NextCycle

SpecScore == InitScore /\ [][NextScore]_vars

----------------------------------------------------------------------------
(* Vocabulary of the reconciler claims *)

\* the pages a pass fetches from collection c: the adapter's pages up to the
\* first empty one, at most max_pages
RECURSIVE FetchedFrom(_, _, _)
FetchedFrom(s, c, page) ==
    IF page > max_pages \/ fetch_collection_products(s, c, page) = <<>> THEN <<>>
    ELSE fetch_collection_products(s, c, page) \o FetchedFrom(s, c, page + 1)

\* every item of the feed of a pass over the current catalogue
FeedItems(s) == Flatten([c \in 1..Len(Collections(s)) |-> FetchedFrom(s, c, 1)])

InFeed(s, row) == \E i \in 1..Len(FeedItems(s)) : SameKey(FeedItems(s)[i].prod, row)

AcceptedInFeed(s, row) ==
    \E i \in 1..Len(FeedItems(s)) :
        SameKey(FeedItems(s)[i].prod, row) /\ Accepted(s, FeedItems(s)[i])

RowsOf(s, row) == {j \in 1..Len(listings[s]) : SameKey(listings[s][j], row)}

\* a pass of s has returned status success and nothing happened since
Finished(s) == pass[s].pc = "done" /\ pass[s].status = "success"

\* C1: soft delete. Every listing active when a pass starts and absent from the
\* feed of the pass is inactive, with its row kept, once the pass has finished.
C1_SoftDelete ==
    \A s \in Stores : Finished(s) =>
        \A i \in 1..Len(pass[s].pre) :
            (pass[s].pre[i].is_active /\ ~InFeed(s, pass[s].pre[i])) =>
                /\ RowsOf(s, pass[s].pre[i]) # {}
                /\ \A j \in RowsOf(s, pass[s].pre[i]) : ~listings[s][j].is_active

\* C2: reactivation. A listing inactive before a pass and accepted from the feed
\* of the pass is active after the pass, and its key still has exactly one row.
C2_Reactivation ==
    \A s \in Stores : Finished(s) =>
        \A i \in 1..Len(pass[s].pre) :
            (~pass[s].pre[i].is_active /\ AcceptedInFeed(s, pass[s].pre[i])) =>
                /\ Cardinality(RowsOf(s, pass[s].pre[i])) = 1
                /\ \A j \in RowsOf(s, pass[s].pre[i]) : listings[s][j].is_active

C2_Witness ==
    \E s \in Stores : Finished(s) /\
        \E i \in 1..Len(pass[s].pre) :
            /\ ~pass[s].pre[i].is_active
            /\ AcceptedInFeed(s, pass[s].pre[i])
            /\ pass[s].reactivated_count > 0
            /\ listings[s][i].is_active

\* two table states that differ in last_seen_at only
SameButLastSeen(a, b) ==
    /\ Len(a) = Len(b)
    /\ \A i \in 1..Len(a) : [a[i] EXCEPT !.last_seen_at = 0] = [b[i] EXCEPT !.last_seen_at = 0]

\* C3: idempotence. A second successful pass over the same feed, right after a
\* successful pass, leaves the rows, flags, fields and first-seen stamps as the
\* first pass left them; only last_seen_at may differ.
C3_Idempotent ==
    \A s \in Stores : (Finished(s) /\ pass[s].repeat) => SameButLastSeen(listings[s], pass[s].pre)

C3_Witness ==
    \E s \in Stores :
        /\ Finished(s) /\ pass[s].repeat
        /\ pass[s].updated_count > 0
        /\ \E i \in 1..Len(listings[s]) :
              /\ listings[s][i].last_seen_at # pass[s].pre[i].last_seen_at
              /\ listings[s][i].scraped_at # listings[s][i].last_seen_at
        /\ \E i \in 1..Len(listings[s]) : ~listings[s][i].is_active

\* C4: at most one listing row per (storefront, product id, variant id).
C4_UniqueListing ==
    \A s \in Stores : \A i, j \in 1..Len(listings[s]) :
        SameKey(listings[s][i], listings[s][j]) => i = j

\* a pass has met a key that already had a row, and a commit was refused for a
\* duplicate key
C4_Witness ==
    \E s \in Stores :
        /\ pass[s].pc = "retry"
        /\ listings[s] # <<>>

----------------------------------------------------------------------------
(* Vocabulary of the scorer claims.  A scoring pass is one step; it reads the *)
(* listings, the benchmarks and the clock of the state it starts in.          *)

\* a scoring pass ends at this step, with a commit or with an exception
ScoreStep == score' # score /\ score'.pc \in {"done", "retry"}

ScoreCompleted == ScoreStep /\ score'.status = "success"

CherryIds == 1..Len(listings["cherry"])

\* the benchmarks a pass may compare listing lid with
FreshBenchmarks(lid) ==
    LET l == listings["cherry"][lid]
    IN  {b \in 1..Len(sold_benchmarks) :
            /\ sold_benchmarks[b].search_query_id = l.search_query_id
            /\ sold_benchmarks[b].data_source = <<"ebay_browse", l.grader, l.grade>>
            /\ (clock - sold_benchmarks[b].calculated_at) * HoursPerTick <= 24}

\* the listing is active and in scope: seen in the last 24 hours, in stock,
\* with a benchmark of the last 24 hours
Examined(lid) ==
    LET l == listings["cherry"][lid]
    IN  /\ l.is_active
        /\ l.in_stock
        /\ (clock - l.last_seen_at) * HoursPerTick <= 24
        /\ FreshBenchmarks(lid) # {}

\* the market price of the most recent benchmark
MarketOf(lid) ==
    LET b == CHOOSE x \in FreshBenchmarks(lid) : \A y \in FreshBenchmarks(lid) :
                  sold_benchmarks[y].calculated_at <= sold_benchmarks[x].calculated_at
    IN  sold_benchmarks[b].market_price

StorePriceOf(lid) == listings["cherry"][lid].price_aud

\* store price < market price x 0.85, in cents
Qualifies(lid) == Examined(lid) /\ 100 * StorePriceOf(lid) < 85 * MarketOf(lid)

OppsOf(rows, lid) == {i \in 1..Len(rows) : rows[i].cherry_listing_id = lid}

Created(lid) == OppsOf(opportunities, lid) = {} /\ OppsOf(opportunities', lid) # {}

Refreshed(lid) ==
    \E i \in OppsOf(opportunities, lid) :
        /\ opportunities'[i].last_verified_at = clock
        /\ opportunities'[i].store_price = StorePriceOf(lid)
        /\ opportunities'[i].market_price = MarketOf(lid)

Abs(x) == IF x < 0 THEN 0 - x ELSE x

\* C5: there is at most one Opportunity row per listing, and a scoring pass that
\* detects a listing which already has a row leaves it with that one row, its
\* discovered-at unchanged and its last-verified-at set to the time of the pass.
C5_OneRowUpdatedInPlace ==
    [][ /\ \A lid \in CherryIds : Cardinality(OppsOf(opportunities', lid)) <= 1
        /\ ScoreStep =>
             \A lid \in CherryIds :
                Qualifies(lid) /\ OppsOf(opportunities, lid) # {} =>
                   /\ OppsOf(opportunities', lid) = OppsOf(opportunities, lid)
                   /\ \A i \in OppsOf(opportunities, lid) :
                         /\ opportunities'[i].discovered_at = opportunities[i].discovered_at
                         /\ opportunities'[i].last_verified_at = clock ]_vars

\* C6: after every completed scoring pass a listing has an active Opportunity
\* if and only if it was active, in scope and below the threshold in that pass.
C6_ActiveIffQualifies ==
    [][ ScoreCompleted =>
          \A lid \in CherryIds :
             (\E i \in OppsOf(opportunities', lid) : opportunities'[i].is_active)
                <=> Qualifies(lid) ]_vars

\* C7: a scoring pass creates or refreshes the Opportunity of an examined listing
\* if and only if the store price is strictly below market price x threshold; at
\* 100.00 against 150.00 the created row carries discount 33.33 and profit 50.00.
C7_StrictThreshold ==
    [][ ScoreStep =>
          \A lid \in CherryIds :
             Examined(lid) =>
                /\ (Created(lid) \/ Refreshed(lid))
                      <=> 100 * StorePriceOf(lid) < 85 * MarketOf(lid)
                /\ Created(lid) /\ StorePriceOf(lid) = 10000 /\ MarketOf(lid) = 15000 =>
                      \A i \in OppsOf(opportunities', lid) :
                         /\ opportunities'[i].discount_percentage = 3333
                         /\ opportunities'[i].potential_profit = 5000 ]_vars

\* C8: every stored Opportunity has potential profit = market price - store price
\* and discount percentage = (market price - store price) / market price x 100
\* to two decimal places (within half a hundredth of a percent).
C8_StoredArithmetic ==
    \A i \in 1..Len(opportunities) :
        LET o == opportunities[i]
        IN  /\ o.potential_profit = o.market_price - o.store_price
            /\ 2 * Abs(o.discount_percentage * o.market_price
                         - (o.market_price - o.store_price) * 10000) <= o.market_price

\* a row refreshed in place after its creation, with a discount that rounds up
C8_Witness ==
    \E i \in 1..Len(opportunities) :
        /\ opportunities[i].discovered_at < opportunities[i].last_verified_at
        /\ opportunities[i].store_price = 10000
        /\ opportunities[i].market_price = 17500
        /\ opportunities[i].discount_percentage = 4286

----------------------------------------------------------------------------
(* Specification of the benchmark engine: the Leo reconciler lists one card  *)
(* under two graders, the marketplace answers with up to two comparables     *)

MaxBenchClock == 1

BenchFeeds ==
    { << << << Product(201, 1, <<"Pikachu", "PSA", "10">>, 10000, TRUE) >> >>,
         << << Product(202, 1, <<"Pikachu", "CGC", "10">>, 10000, TRUE) >> >> >> }

\* prices around the floor and the ceiling of the scope
BenchItems ==
    { MarketItem(<<"Pikachu", "PSA", "10">>, m) :
        m \in {price_floor_aud - 1, price_floor_aud, price_floor_aud + 1,
               price_ceiling_aud - 1, price_ceiling_aud} }
    \cup { MarketItem(<<"Pikachu", "CGC", "10">>, 15000),
           MarketItem(<<"JAPANESE", "Pikachu", "PSA", "10">>, 15000) }

BenchResponses == UNION { [1..n -> BenchItems] : n \in 0..2 }

NextBench ==
    \/ bench.pc # "running" /\ Tick(MaxBenchClock)
    \/ SetFeed("leo", BenchFeeds)
    \/ bench.pc # "running" /\ StartPass("leo")
    \/ ProcessPage("leo")
    \/ EndCollection("leo")
    \/ FinishPass("leo")
    \/ pass["leo"].pc # "running" /\ BenchStart
    \/ BenchNextQuery
    \/ BenchSkip
    \/ \E resp \in BenchResponses : BenchCompute(resp)
    \/ BenchFetchError
    \/ BenchFinish

SpecBench == Init /\ [][NextBench]_vars

\* the k-th smallest element of q: fewer than k elements are below it and at
\* least k are not above it
KthSmallest(q, k) ==
    CHOOSE v \in {q[i] : i \in 1..Len(q)} :
        /\ Cardinality({i \in 1..Len(q) : q[i] < v}) < k
        /\ Cardinality({i \in 1..Len(q) : q[i] <= v}) >= k

\* the median of a non-empty list in half cents: the middle element, or the
\* mean of the two middle elements
StandardMedian(q) ==
    LET n == Len(q)
    IN  IF n % 2 = 1 THEN 2 * KthSmallest(q, (n + 1) \div 2)
        ELSE KthSmallest(q, n \div 2) + KthSmallest(q, n \div 2 + 1)

\* the last computation of the run stored a row
Inserted == Len(sold_benchmarks) = bench.before + 1

\* C9: a benchmark computation whose filtered price list is non-empty, with
\* median M, inserts a Benchmark row if and only if floor <= M < ceiling.
C9_ScopeFilter ==
    bench.prices # <<>> =>
        (Inserted <=> /\ 2 * price_floor_aud <= StandardMedian(bench.prices)
                      /\ StandardMedian(bench.prices) < 2 * price_ceiling_aud)

\* two comparables whose mean is exactly the floor: the row is stored
C9_Witness ==
    /\ Len(bench.prices) = 2
    /\ bench.prices[1] # bench.prices[2]
    /\ StandardMedian(bench.prices) = 2 * price_floor_aud
    /\ Inserted

----------------------------------------------------------------------------
(* Specification of _median_dec alone: a price list is given, the median is  *)
(* taken, the list is handed over again in another order                     *)

MaxMedianLen == 4

MedianPrices == {2999, 3000, 3002, 15000}

MedianInputs == UNION { [1..n -> MedianPrices] : n \in 0..MaxMedianLen }

InitMedian ==
    /\ clock = 0
    /\ search_queries = <<>>
    /\ listings = [s \in Stores |-> <<>>]
    /\ feed = [s \in Stores |-> EmptyFeed(s)]
    /\ pass = [s \in Stores |-> IdlePass]
    /\ Quiet
    /\ celery = IdleCelery
    /\ \E values \in MedianInputs :
          median_io = [values |-> values, result |-> 0, calls |-> 0]

\* market = _median_dec(prices)
MedianCall ==
    /\ median_io.calls < 2
    /\ median_io' = [median_io EXCEPT !.result = _median_dec(median_io.values),
                                      !.calls = @ + 1]
    /\ UNCHANGED <<clock, search_queries, listings, feed, pass,
                   sold_benchmarks, opportunities, bench, score, celery>>

\* the same prices arrive in another order
MedianReorder ==
    /\ median_io.calls = 1
    /\ \E i, j \in 1..Len(median_io.values) :
          /\ median_io.values[i] # median_io.values[j]
          /\ median_io' = [median_io EXCEPT !.values = [@ EXCEPT ![i] = median_io.values[j],
                                                                 ![j] = median_io.values[i]]]
    /\ UNCHANGED <<clock, search_queries, listings, feed, pass,
                   sold_benchmarks, opportunities, bench, score, celery>>

NextMedian == MedianCall \/ MedianReorder

SpecMedian == InitMedian /\ [][NextMedian]_vars

\* C10: for a non-empty list _median_dec returns the standard median (the middle
\* element of the sorted list for an odd length, the mean of the two middle
\* elements for an even length), whatever the order of the list: the result of
\* the call stays the median of the list however it is reordered, and a second
\* call on the reordered list returns it again.
C10_Median ==
    median_io.calls > 0 /\ median_io.values # <<>> =>
        /\ median_io.result = StandardMedian(median_io.values)
        /\ _median_dec(median_io.values) = median_io.result

\* an even-length list that is not sorted, called again after a reordering
C10_Witness ==
    /\ median_io.calls = 2
    /\ Len(median_io.values) = 4
    /\ median_io.values[1] > median_io.values[2]
    /\ median_io.values[3] > median_io.values[4]
    /\ median_io.values[2] # median_io.values[3]

----------------------------------------------------------------------------
(* Claims about the benchmark table and the candidates of a run *)

\* C11: Benchmark rows are append-only: no step of any stage modifies or deletes
\* an existing row, a step either leaves the table alone or adds rows at its end.
C11_AppendOnly ==
    [][ /\ Len(sold_benchmarks') >= Len(sold_benchmarks)
        /\ \A i \in 1..Len(sold_benchmarks) : sold_benchmarks'[i] = sold_benchmarks[i] ]_vars

\* the history of one (identity, tag) holds two rows of different times and prices
C11_Witness ==
    \E i, j \in 1..Len(sold_benchmarks) :
        /\ i < j
        /\ sold_benchmarks[i].search_query_id = sold_benchmarks[j].search_query_id
        /\ sold_benchmarks[i].data_source = sold_benchmarks[j].data_source
        /\ sold_benchmarks[i].calculated_at < sold_benchmarks[j].calculated_at
        /\ sold_benchmarks[i].market_price # sold_benchmarks[j].market_price

----------------------------------------------------------------------------
(* Specification of the task runner: what starts a task and when it runs *)

Data == <<clock, search_queries, listings, feed, pass,
          sold_benchmarks, opportunities, bench, score, median_io>>

\* the broker queue is a bag of messages: the messages of one call are distinct
Enqueue(msgs) == [celery EXCEPT !.queue = @ (+) SetToBag(msgs)]

\* the messages whose countdown has run out
Due == {m \in BagToSet(celery.queue) : m.eta <= celery.now}

Busy(w) == celery.slot[w] # FreeSlot

\* beat_schedule: every task_interval_seconds beat sends the five tasks with
\* their countdowns
BeatDue ==
    /\ celery.now = celery.beat_due
    /\ celery' = [Enqueue({  Message("fetch_cherry_listings", celery.now, 0, TRUE),
                             Message("fetch_leo_listings", celery.now, 30, TRUE),
                             Message("fetch_sold_benchmarks", celery.now, 120, TRUE),
                             Message("identify_cherry_opportunities", celery.now, 210, TRUE),
                             Message("identify_leo_opportunities", celery.now, 240, TRUE) })
                    EXCEPT !.beat_due = @ + Ticks(task_interval_seconds)]
    /\ UNCHANGED Data

\* POST /api/run-scan; fetch_sold_benchmarks(self) does not accept force_all.
\* With argument checking at the call (Task.typing) the second apply_async
\* raises and the handler ends there; without it the three messages are sent
\* and the call fails in the worker
run_scan_now ==
    /\ celery.scans < MaxScans
    /\ \E typing \in BOOLEAN :
          celery' = [Enqueue(IF typing
                             THEN {  Message("fetch_cherry_listings", celery.now, 0, TRUE) }
                             ELSE {  Message("fetch_cherry_listings", celery.now, 0, TRUE),
                                     Message("fetch_sold_benchmarks", celery.now, 90, FALSE),
                                     Message("identify_cherry_opportunities", celery.now, 180, TRUE) })
                       EXCEPT !.scans = @ + 1]
    /\ UNCHANGED Data

\* POST /api/run-full-scan
run_full_scan_now ==
    /\ celery.scans < MaxScans
    /\ \E typing \in BOOLEAN :
          celery' = [Enqueue(IF typing
                             THEN {  Message("fetch_cherry_listings", celery.now, 0, TRUE),
                                     Message("fetch_leo_listings", celery.now, 15, TRUE) }
                             ELSE {  Message("fetch_cherry_listings", celery.now, 0, TRUE),
                                     Message("fetch_leo_listings", celery.now, 15, TRUE),
                                     Message("fetch_sold_benchmarks", celery.now, 120, FALSE),
                                     Message("identify_cherry_opportunities", celery.now, 210, TRUE),
                                     Message("identify_leo_opportunities", celery.now, 240, TRUE) })
                       EXCEPT !.scans = @ + 1]
    /\ UNCHANGED Data

\* the first free worker process takes a due message (prefetch multiplier 1) and calls
\* the task; a call with a keyword the task does not accept fails at once
WorkerStart(w) ==
    /\ ~Busy(w)
    /\ \A v \in Workers : v < w => Busy(v)
    /\ \E m \in Due :
          celery' = [celery EXCEPT
             !.queue = @ (-) SetToBag({m}),
             !.slot[w] = IF m.accepted
                         THEN [task |-> m.task, started |-> celery.now,
                               retries |-> m.retries]
                         ELSE FreeSlot]
    /\ UNCHANGED Data

\* the task returns
WorkerReturn(w) ==
    /\ Busy(w)
    /\ celery' = [celery EXCEPT !.slot[w] = FreeSlot]
    /\ UNCHANGED Data

\* "except Exception: self.retry(exc=e, countdown=60)": the task ends and a new
\* message is sent, unless max_retries is used up
WorkerRetry(w) ==
    /\ Busy(w)
    /\ LET r == celery.slot[w]
       IN  celery' = [celery EXCEPT
              !.slot[w] = FreeSlot,
              !.queue = IF r.retries < max_retries
                        THEN @ (+) SetToBag({[task |-> r.task,
                                              eta |-> celery.now + Ticks(retry_countdown),
                                              retries |-> r.retries + 1,
                                              accepted |-> TRUE]})
                        ELSE @]
    /\ UNCHANGED Data

\* time passes: beat fires on time, a free worker takes a due message at once,
\* a task that reaches task_time_limit is killed
CeleryTick ==
    /\ celery.now < MaxCeleryTicks
    /\ celery.now < celery.beat_due
    /\ ~(Due # {} /\ \E w \in Workers : ~Busy(w))
    /\ celery' = [celery EXCEPT
          !.now = @ + 1,
          !.slot = [w \in Workers |->
                      IF Busy(w) /\ celery.now + 1 - celery.slot[w].started >= Ticks(task_time_limit)
                      THEN FreeSlot ELSE celery.slot[w]]]
    /\ UNCHANGED Data

NextCelery ==
    \/ BeatDue
    \/ run_scan_now
    \/ run_full_scan_now
    \/ \E w \in Workers : WorkerStart(w)
    \/ \E w \in Workers : WorkerReturn(w)
    \/ \E w \in Workers : WorkerRetry(w)
    \/ CeleryTick

SpecCelery == InitScore /\ [][NextCelery]_vars

InProgress(s) == {w \in Workers : celery.slot[w].task = ReconcileTask(s)}

\* C12: at no time are two reconcile passes of the same storefront in progress
\* at once, whether they were started by the schedule, by a manual scan request
\* or by a retry, with two worker processes.
C12_SingleFlight == \A s \in Stores : Cardinality(InProgress(s)) <= 1

----------------------------------------------------------------------------
(* Specification of a scoring pass that runs while a reconcile pass is between *)
(* two of its page commits                                                     *)

MaxRaceClock == 1

RaceProducts ==
    { Product(101, 1, <<"PSA", "10", "Pikachu">>, 10000, TRUE),
      Product(103, 1, <<"PSA", "10", "Pikachu">>, 10000, TRUE),
      Product(103, 1, <<"PSA", "10", "Pikachu">>, 16000, TRUE) }

\* two products of the catalogue, on one page or on two
RacePairs == {ab \in RaceProducts \X RaceProducts : ab[1].product_id < ab[2].product_id}

RaceFeeds ==
    { << p >> : p \in { << <<ab[1], ab[2]>> >> : ab \in RacePairs }
                        \cup { << <<ab[1]>>, <<ab[2]>> >> : ab \in RacePairs } }

RaceResponses == { << MarketItem(<<"Pikachu", "PSA", "10">>, 15000) >> }

NextRace ==
    \/ Rested /\ Tick(MaxRaceClock)
    \/ Rested /\ SetFeed("cherry", RaceFeeds)
    \/ bench.pc \in {"idle", "done"} /\ StartPass("cherry")
    \/ ProcessPage("cherry")
    \/ FinishPass("cherry")
    \/ pass["cherry"].pc \in {"idle", "done"} /\ score.pc = "idle" /\ BenchStart
    \/ BenchNextQuery
    \/ BenchSkip
    \/ \E resp \in RaceResponses : BenchCompute(resp)
    \/ BenchFetchError
    \/ BenchFinish
    \/ /\ bench.pc \in {"idle", "done"}
       /\ score.pc \in {"idle", "retry"}
       /\ ScorePass
    \/ NextCycle

SpecRace == InitScore /\ [][NextRace]_vars

\* the item of the feed that carries the key of a row
FeedItemOf(s, row) ==
    LET hits == {i \in 1..Len(FeedItems(s)) : SameKey(FeedItems(s)[i].prod, row)}
    IN  FeedItems(s)[CHOOSE i \in hits : \A j \in hits : j <= i]

\* listing lid was active when the running pass started, its product is in the
\* feed of the pass and passes the filters, and with the values of the feed it
\* is below the threshold of its fresh benchmark
StillQualifies(lid) ==
    /\ pass["cherry"].pc = "running"
    /\ lid <= Len(pass["cherry"].pre)
    /\ pass["cherry"].pre[lid].is_active
    /\ AcceptedInFeed("cherry", pass["cherry"].pre[lid])
    /\ FeedItemOf("cherry", pass["cherry"].pre[lid]).prod.in_stock
    /\ FreshBenchmarks(lid) # {}
    /\ 100 * FeedItemOf("cherry", pass["cherry"].pre[lid]).prod.price_aud < 85 * MarketOf(lid)

\* C13: a scoring pass that commits while a reconcile pass is running does not
\* deactivate an Opportunity whose listing was active before the reconcile pass,
\* is in its feed and still qualifies.
C13_ScoreDuringReconcile ==
    [][ ScoreCompleted =>
          \A i \in 1..Len(opportunities) :
              (opportunities[i].is_active /\ StillQualifies(opportunities[i].cherry_listing_id))
                  => opportunities'[i].is_active ]_vars

----------------------------------------------------------------------------
(* Specification of a reconcile pass whose page fetches may fail *)

\* one iteration of "while page <= max_pages" of a pass
LoopStep(s) ==
    \/ FetchFail(s)
    \/ FetchRetry(s)
    \/ ProcessPage(s)
    \/ EndCollection(s)
    \/ FinishPass(s)

NextFetch ==
    \/ \E s \in Stores : OthersEmpty(s) /\ SetFeed(s, Feeds(s))
    \/ \E s \in Stores : (\A o \in Stores \ {s} : pass[o].pc # "running") /\ StartPass(s)
    \/ \E s \in Stores : FetchFail(s)
    \/ \E s \in Stores : FetchRetry(s)
    \/ \E s \in Stores : ProcessPage(s)
    \/ \E s \in Stores : EndCollection(s)
    \/ \E s \in Stores : FinishPass(s)

SpecFetch == Init /\ [][NextFetch]_vars

\* a task that runs keeps running: the loop always takes its next iteration
SpecFetchFair == SpecFetch /\ \A s \in Stores : WF_vars(LoopStep(s))

\* the pass of s from collection c, page on, with no fetch failure; an error at
\* a commit ends it with what was committed before
RECURSIVE Replay(_, _, _, _, _)
Replay(st, s, c, page, now) ==
    LET batch == fetch_collection_products(s, c, page)
    IN  IF page > max_pages \/ batch = <<>>
        THEN IF c < Len(Collections(s)) THEN Replay(st, s, c + 1, 1, now) ELSE st
        ELSE LET st1 == ProcessBatch(st, s, batch, now)
                 st2 == IF st1.err THEN st1 ELSE Flush(st1)
             IN  IF st2.err THEN [st EXCEPT !.err = TRUE]
                 ELSE Replay(st2, s, c, page + 1, now)

\* the identities that existed when the finished pass of s started
QueriesBefore(s) == SubSeq(search_queries, 1, Len(search_queries) - pass[s].created_queries)

\* tables after a pass of s over the same feed, from the same tables, in which
\* every fetch succeeds at once
NoFailurePass(s) ==
    LET st0 == [queries |-> QueriesBefore(s), rows |-> DeactivateAll(pass[s].pre),
                pending |-> <<>>, reactivated_count |-> 0, new_count |-> 0,
                updated_count |-> 0, matched_count |-> 0, created_queries |-> 0,
                err |-> FALSE]
        st == Replay(st0, s, 1, 1, pass[s].now)
    IN  [listings |-> IF FeedItems(s) = <<>> THEN pass[s].pre ELSE st.rows,
         search_queries |-> st.queries,
         err |-> st.err]

\* C14: a pass in which one page fetch failed once and succeeded when retried
\* ends with the persisted listings and identities of a pass over the same feed
\* with no failure.
C14_TransientFetchFailure ==
    \A s \in Stores : (Finished(s) /\ pass[s].fetch_failures = 1) =>
        /\ ~NoFailurePass(s).err
        /\ listings[s] = NoFailurePass(s).listings
        /\ search_queries = NoFailurePass(s).search_queries

\* one fetch failed once in a pass over two pages or more that reactivated a
\* listing, inserted another and created an identity
C14_Witness ==
    \E s \in Stores :
        /\ Finished(s)
        /\ pass[s].fetch_failures = 1
        /\ pass[s].page > 2
        /\ pass[s].reactivated_count > 0
        /\ pass[s].new_count > 0
        /\ pass[s].created_queries > 0

\* C15: a reconcile pass always terminates: a running pass reaches its end, also
\* when the fetch of a page keeps failing.
C15_PassTerminates == \A s \in Stores : (pass[s].pc = "running") ~> (pass[s].pc # "running")

----------------------------------------------------------------------------
(* Claims about search identities *)

Language(title) == IF _is_jp_title(title) THEN "JP" ELSE "EN"

\* the identity of the item's (normalized key, language), 0 when there is none
IdentityOf(s, item) ==
    FindQuery(search_queries, Derive(s, item.prod.title).query_text, Language(item.prod.title))

\* the task of s has returned a result (not raised)
Returned(s) == pass[s].pc = "done" /\ pass[s].status \in {"success", "no_queries"}

\* C16: when a pass of any storefront has returned, every qualifying product of
\* its feed has its identity and a listing that refers to it, whatever the number
\* of identities before the pass, including none.
C16_IdentityCreated ==
    \A s \in Stores : Returned(s) =>
        \A i \in 1..Len(FeedItems(s)) :
            Accepted(s, FeedItems(s)[i]) =>
                /\ IdentityOf(s, FeedItems(s)[i]) # 0
                /\ \E j \in 1..Len(listings[s]) :
                      /\ SameKey(listings[s][j], FeedItems(s)[i].prod)
                      /\ listings[s][j].search_query_id \in 1..Len(search_queries)

----------------------------------------------------------------------------
(* Specification of two reconcile passes whose page transactions overlap: the *)
(* session reads the identities when the page starts and commits at its end   *)

SameIdentity(a, b) == a.query_text = b.query_text /\ a.language = b.language

NoQueryConstraint(committed, created) == FALSE

\* uq_search_queries_query_text_language: TRUE when the identities a transaction
\* inserted meet a committed row of the same (query_text, language)
QueryViolation(committed, created) ==
    \E i \in 1..Len(created), j \in 1..Len(committed) : SameIdentity(created[i], committed[j])

\* the rows that refer to an identity inserted by the transaction carry the id
\* the table gave it
Renumber(rows, known, shift) ==
    [i \in 1..Len(rows) |->
        IF rows[i].search_query_id > known
        THEN [rows[i] EXCEPT !.search_query_id = @ + shift]
        ELSE rows[i]]

\* the page starts: what the queries of the session will see
BeginPage(s) ==
    /\ pass[s].pc = "running"
    /\ ~pass[s].sleeping
    /\ ~pass[s].in_page
    /\ ~LoopEnded(s)
    /\ pass' = [pass EXCEPT ![s].in_page = TRUE, ![s].seen = search_queries]
    /\ UNCHANGED <<clock, search_queries, listings, feed,
                   sold_benchmarks, opportunities, bench, score, median_io, celery>>

\* the session after the products of the current page were upserted from the
\* identities it saw, and flushed
PageResult(s, seen) ==
    LET st0 == [queries |-> seen, rows |-> View(s), pending |-> <<>>,
                reactivated_count |-> pass[s].reactivated_count,
                new_count |-> pass[s].new_count,
                updated_count |-> pass[s].updated_count,
                matched_count |-> pass[s].matched_count,
                created_queries |-> pass[s].created_queries,
                err |-> FALSE]
    IN  Flush(ProcessBatch(st0, s, CurrentBatch(s), pass[s].now))

\* db.commit() of the page: IntegrityError leads to self.retry, otherwise the
\* rows inserted into search_queries get the next ids of the table
CommitResult(s, st, created) ==
    IF st.err \/ QueryViolation(search_queries, created)
    THEN /\ pass' = [pass EXCEPT ![s] =
                 IF pass[s].retries < max_retries
                 THEN [IdlePass EXCEPT !.pc = "retry", !.retries = pass[s].retries + 1,
                                       !.status = "retrying"]
                 ELSE [IdlePass EXCEPT !.pc = "done", !.status = "failed"]]
         /\ UNCHANGED <<search_queries, listings>>
    ELSE /\ search_queries' = search_queries \o created
         /\ listings' = [listings EXCEPT ![s] =
                 Renumber(st.rows, Len(pass[s].seen), Len(search_queries) - Len(pass[s].seen))]
         /\ pass' = [pass EXCEPT ![s] = [@ EXCEPT
                 !.page = @ + 1,
                 !.dirty = FALSE,
                 !.in_page = FALSE,
                 !.seen = <<>>,
                 !.reactivated_count = st.reactivated_count,
                 !.new_count = st.new_count,
                 !.updated_count = st.updated_count,
                 !.matched_count = st.matched_count,
                 !.created_queries = st.created_queries]]

CommitSession(s, st) ==
    CommitResult(s, st, SubSeq(st.queries, Len(pass[s].seen) + 1, Len(st.queries)))

\* the products of the page are upserted and the page is committed
CommitPage(s) ==
    /\ pass[s].pc = "running"
    /\ pass[s].in_page
    /\ CommitSession(s, PageResult(s, pass[s].seen))
    /\ UNCHANGED <<clock, feed, sold_benchmarks, opportunities, bench, score, median_io, celery>>

\* both storefronts list the same card under their own title, and another card
CherryIdentityFeeds ==
    { << << << Product(101, 1, <<"PSA", "10", "Pikachu">>, 10000, TRUE) >> >> >>,
      << << << Product(102, 1, <<"CGC", "10", "Eevee">>, 10000, TRUE) >>,
            << Product(101, 1, <<"PSA", "10", "Pikachu">>, 10000, TRUE) >> >> >> }

LeoIdentityFeeds ==
    { << << << Product(201, 1, <<"Pikachu", "PSA", "10">>, 10000, TRUE) >> >>, << >> >>,
      << << << Product(201, 1, <<"Pikachu", "PSA", "10">>, 10000, TRUE) >> >>,
         << << Product(202, 1, <<"Eevee", "CGC", "10">>, 10000, TRUE) >> >> >> }

IdentityFeeds(s) == IF s = "cherry" THEN CherryIdentityFeeds ELSE LeoIdentityFeeds

NextIdentity ==
    \/ \E s \in Stores : SetFeed(s, IdentityFeeds(s))
    \/ \E s \in Stores : StartPass(s)
    \/ \E s \in Stores : BeginPage(s)
    \/ \E s \in Stores : CommitPage(s)
    \/ \E s \in Stores : EndCollection(s)
    \/ \E s \in Stores : FinishPass(s)

SpecIdentity == Init /\ [][NextIdentity]_vars

\* C17: in every reachable state there is at most one SearchIdentity per
\* (normalized key, language), also when a Cherry and a Leo pass that observe
\* the same new title interleave.
C17_UniqueIdentity ==
    \A i, j \in 1..Len(search_queries) :
        SameIdentity(search_queries[i], search_queries[j]) => i = j

\* a Cherry and a Leo pass both started a page without the identity of the card
\* they both list; one has committed it, the other is still in its page
C17_Witness ==
    \E s \in Stores, o \in Stores :
        /\ s # o
        /\ pass[o].pc = "running" /\ pass[o].in_page
        /\ pass[s].created_queries > 0
        /\ \E i \in 1..Len(CurrentBatch(o)) :
              /\ Accepted(o, CurrentBatch(o)[i])
              /\ IdentityOf(o, CurrentBatch(o)[i]) > Len(pass[o].seen)

----------------------------------------------------------------------------
(* Claims about the listings a successful pass leaves *)

\* item i of the feed passes the filters and no later item of the feed with the
\* same key does: its values are the variant's values from this pass
LastAccepted(s, i) ==
    /\ Accepted(s, FeedItems(s)[i])
    /\ \A k \in (i + 1)..Len(FeedItems(s)) :
          SameKey(FeedItems(s)[k].prod, FeedItems(s)[i].prod) => ~Accepted(s, FeedItems(s)[k])

\* the row carries the values of the item and refers to the item's identity
Mirrors(s, row, item) ==
    /\ SameKey(row, item.prod)
    /\ row.is_active
    /\ row.price_aud = item.prod.price_aud
    /\ row.title = item.prod.title
    /\ row.in_stock = item.prod.in_stock
    /\ row.language = Language(item.prod.title)
    /\ row.grader = Grading(s, item).grader
    /\ row.grade = Grading(s, item).grade
    /\ row.search_query_id # 0
    /\ row.search_query_id = IdentityOf(s, item)

\* C18: after a pass that completed with status success, every product variant
\* of the fetched pages that passes the inclusion filters has an active listing
\* row whose price, title, stock flag, language, grader, grade and identity
\* reference are the variant's values from this pass.
C18_ListingsMirrorFeed ==
    \A s \in Stores : Finished(s) =>
        \A i \in 1..Len(FeedItems(s)) :
            LastAccepted(s, i) =>
                \E j \in 1..Len(listings[s]) : Mirrors(s, listings[s][j], FeedItems(s)[i])

\* a successful pass met a variant whose row carried another title, price and
\* identity
C18_Witness ==
    \E s \in Stores :
        /\ Finished(s)
        /\ \E i \in 1..Len(FeedItems(s)), j \in 1..Len(pass[s].pre) :
              /\ LastAccepted(s, i)
              /\ SameKey(pass[s].pre[j], FeedItems(s)[i].prod)
              /\ pass[s].pre[j].title # FeedItems(s)[i].prod.title
              /\ pass[s].pre[j].price_aud # FeedItems(s)[i].prod.price_aud
              /\ pass[s].pre[j].search_query_id # listings[s][j].search_query_id
              /\ Mirrors(s, listings[s][j], FeedItems(s)[i])

----------------------------------------------------------------------------
(* Specification of the benchmark engine running next to the Leo reconciler: *)
(* which candidates a run queries and which it skips                         *)

MaxCandidateClock == 1

\* one card listed as PSA 10 and as CGC 10, or as one of them only
CandidateFeeds ==
    { << << << Product(201, 1, <<"Pikachu", "PSA", "10">>, 10000, TRUE) >> >>,
         << << Product(202, 1, <<"Pikachu", "CGC", "10">>, 10000, TRUE) >> >> >>,
      << << << Product(201, 1, <<"Pikachu", "PSA", "10">>, 10000, TRUE) >> >>,
         << >> >>,
      << << >>,
         << << Product(202, 1, <<"Pikachu", "CGC", "10">>, 10000, TRUE) >> >> >> }

\* the marketplace answers with comparables of one grader
CandidateResponses ==
    { << MarketItem(<<"Pikachu", "PSA", "10">>, 15000) >>,
      << MarketItem(<<"Pikachu", "CGC", "10">>, 14000) >> }

NextCandidates ==
    \/ pass["leo"].pc # "running" /\ bench.pc # "running" /\ Tick(MaxCandidateClock)
    \/ SetFeed("leo", CandidateFeeds)
    \/ StartPass("leo")
    \/ ProcessPage("leo")
    \/ EndCollection("leo")
    \/ FinishPass("leo")
    \/ BenchStart
    \/ BenchNextQuery
    \/ BenchSkip
    \/ \E resp \in CandidateResponses : BenchCompute(resp)
    \/ BenchFetchError
    \/ BenchFinish

SpecCandidates == Init /\ [][NextCandidates]_vars

\* an active listing of the tuple in the given tables
ActiveListingOf(tables, qid, tag) ==
    \E s \in Stores : \E i \in 1..Len(tables[s]) :
        /\ tables[s][i].is_active
        /\ tables[s][i].search_query_id = qid
        /\ data_source(tables[s][i].grader, tables[s][i].grade) = tag

\* the tuple had an active listing when the run read the listings of its identity
HadActiveListing(qid, tag) == bench.read # <<>> /\ ActiveListingOf(bench.read, qid, tag)

\* this step issues the market query of the candidate the run is at
QueryIssued ==
    /\ bench.pc = "running"
    /\ bench.combos # <<>>
    /\ bench'.processed = bench.processed + 1
    /\ bench'.combos = Tail(bench.combos)

\* C19: every Benchmark row a run inserts is for a (identity, grader, grade)
\* tuple that had an active listing when the run read the listings, and no
\* market query is issued for a tuple without one.
C19_OnlyListedTuples ==
    [][ /\ QueryIssued =>
              HadActiveListing(bench.q, data_source(Head(bench.combos)[1], Head(bench.combos)[2]))
        /\ \A i \in (Len(sold_benchmarks) + 1)..Len(sold_benchmarks') :
              HadActiveListing(sold_benchmarks'[i].search_query_id, sold_benchmarks'[i].data_source)
      ]_vars

\* the run has just stored a row for a tuple whose listing a reconcile pass has
\* deactivated since the run read it, while another listing of the card is active
C19_Witness ==
    /\ bench.pc = "running"
    /\ Inserted
    /\ LET r == sold_benchmarks[Len(sold_benchmarks)]
       IN  /\ HadActiveListing(r.search_query_id, r.data_source)
           /\ ~ActiveListingOf(listings, r.search_query_id, r.data_source)
           /\ \E s \in Stores : \E i \in 1..Len(listings[s]) :
                 listings[s][i].is_active /\ listings[s][i].search_query_id = r.search_query_id

\* the benchmarks of the exact tag of the candidate the run is at
OwnBenchmarks ==
    {i \in 1..Len(sold_benchmarks) :
        /\ sold_benchmarks[i].search_query_id = bench.q
        /\ sold_benchmarks[i].data_source =
              data_source(Head(bench.combos)[1], Head(bench.combos)[2])}

\* hours between the benchmark and the start of the run
AgeAtRun(i) == Hours(bench.now) - Hours(sold_benchmarks[i].calculated_at)

\* the run is at a candidate
AtCandidate == bench.pc = "running" /\ bench.combos # <<>>

\* this step passes over the candidate without a market query
Skipped ==
    /\ AtCandidate
    /\ bench'.combos = Tail(bench.combos)
    /\ bench'.processed = bench.processed
    /\ bench'.errors = bench.errors
    /\ bench'.filtered = bench.filtered
    /\ sold_benchmarks' = sold_benchmarks

\* C20: a candidate whose most recent benchmark with its exact grader and grade
\* tag is younger than the minimum age is skipped: whatever the run does with it
\* issues no market query and inserts no row; and a skip is never caused by a
\* benchmark of another tag: the candidate of a skip has a benchmark of its own
\* tag that is not older than the minimum age.
C20_RecentBenchmarkSkips ==
    [][ /\ (AtCandidate /\ bench' # bench
              /\ \E i \in OwnBenchmarks : AgeAtRun(i) < sold_benchmark_min_age_hours)
           => Skipped
        /\ Skipped =>
              \E i \in OwnBenchmarks : AgeAtRun(i) <= sold_benchmark_min_age_hours
      ]_vars

\* a run over a card listed as PSA 10 and CGC 10 that had a fresh PSA benchmark
\* only: it skipped the PSA candidate and queried and stored the CGC one
C20_Witness ==
    /\ bench.pc = "running"
    /\ bench.combos = <<>>
    /\ bench.processed = 1
    /\ bench.stored = 1
    /\ bench.before = 1
    /\ Len(sold_benchmarks) = 2
    /\ sold_benchmarks[1].search_query_id = bench.q
    /\ sold_benchmarks[2].search_query_id = bench.q
    /\ sold_benchmarks[1].data_source = data_source("PSA", 10)
    /\ sold_benchmarks[2].data_source = data_source("CGC", 10)
    /\ ActiveListingOf(bench.read, bench.q, data_source("PSA", 10))
    /\ ActiveListingOf(bench.read, bench.q, data_source("CGC", 10))

----------------------------------------------------------------------------
(* Specification of one benchmark run over more candidates than a run may     *)
(* query: five cards of the Leo storefront, four of them in both gradings     *)

\* number of marketplace requests that fail in a run
MaxQuotaErrors == 1

QuotaFeed ==
    << << << Product(201, 1, <<"Pikachu", "PSA", "10">>, 10000, TRUE),
             Product(202, 1, <<"Eevee", "PSA", "10">>, 10000, TRUE),
             Product(203, 1, <<"JAPANESE", "Pikachu", "PSA", "10">>, 10000, TRUE),
             Product(204, 1, <<"JAPANESE", "Eevee", "PSA", "10">>, 10000, TRUE),
             Product(205, 1, <<"Mew", "PSA", "10">>, 10000, TRUE) >> >>,
       << << Product(206, 1, <<"Pikachu", "CGC", "10">>, 10000, TRUE),
             Product(207, 1, <<"Eevee", "CGC", "10">>, 10000, TRUE),
             Product(208, 1, <<"JAPANESE", "Pikachu", "CGC", "10">>, 10000, TRUE),
             Product(209, 1, <<"JAPANESE", "Eevee", "CGC", "10">>, 10000, TRUE) >> >> >>

\* the same storefront with two cards only
SmallQuotaFeed ==
    << << << Product(201, 1, <<"Pikachu", "PSA", "10">>, 10000, TRUE),
             Product(202, 1, <<"Eevee", "PSA", "10">>, 10000, TRUE) >> >>,
       << >> >>

QuotaFeeds == {QuotaFeed, SmallQuotaFeed}

\* the marketplace answers every query with one English PSA 10 comparable
QuotaResponses == { << MarketItem(<<"Pikachu", "PSA", "10">>, 15000) >> }

\* the reconcile pass of a cycle runs before the benchmark run (countdown 30
\* against 120 seconds); one run is followed from a benchmark table that is
\* empty when it starts, so no candidate is skipped
NextQuota ==
    \/ bench.pc = "idle" /\ SetFeed("leo", QuotaFeeds)
    \/ bench.pc = "idle" /\ StartPass("leo")
    \/ ProcessPage("leo")
    \/ EndCollection("leo")
    \/ FinishPass("leo")
    \/ bench.pc = "idle" /\ pass["leo"].pc = "done" /\ BenchStart
    \/ BenchNextQuery
    \/ \E resp \in QuotaResponses : BenchCompute(resp)
    \/ bench.errors < MaxQuotaErrors /\ BenchFetchError
    \/ bench.errors < MaxQuotaErrors /\ BenchRateLimited
    \/ BenchFinish

SpecQuota == Init /\ [][NextQuota]_vars

\* market queries the run has issued: each one ends stored, filtered or in error
QueriesIssued == bench.stored + bench.filtered + bench.errors

\* the (identity, tag) tuples with an active listing
Candidates ==
    {c \in (1..Len(search_queries)) \X {data_source("PSA", 10), data_source("CGC", 10)} :
        search_queries[c[1]].is_active /\ ActiveListingOf(listings, c[1], c[2])}

\* C21: in one run of the benchmark task the number of market queries issued
\* (stored, filtered or failed) never exceeds sold_benchmark_max_queries_per_run,
\* and a run inserts no row without a counted query.
C21_QueryQuota ==
    /\ QueriesIssued <= sold_benchmark_max_queries_per_run
    /\ Len(sold_benchmarks) = bench.stored

\* a finished run over nine candidates that issued the maximum number of
\* queries, among them a failed one, and broke off at the ninth candidate
C21_Witness ==
    /\ bench.pc = "done"
    /\ bench.status = "success"
    /\ Cardinality(Candidates) > sold_benchmark_max_queries_per_run
    /\ QueriesIssued = sold_benchmark_max_queries_per_run
    /\ bench.processed > sold_benchmark_max_queries_per_run
    /\ bench.errors = 1
    /\ bench.filtered > 0
    /\ bench.stored > 0

\* C22: an error on one candidate is counted in errors once, changes no stored
\* benchmark, leaves the run running with the remaining candidates of the
\* identity and the remaining identities still to do, and a run that had errors
\* returns status success.
C22_ErrorIsolated ==
    [][ /\ bench'.errors > bench.errors =>
              /\ bench'.errors = bench.errors + 1
              /\ sold_benchmarks' = sold_benchmarks
              /\ bench'.stored = bench.stored
              /\ bench'.pc = "running"
              /\ bench'.combos = Tail(bench.combos)
              /\ bench'.queue = bench.queue
        /\ (bench.pc = "running" /\ bench'.pc = "done" /\ bench.errors > 0) =>
              bench'.status = "success"
      ]_vars

\* a finished run in which one request failed: the three English PSA 10
\* candidates were all stored and the run returned success
C22_Witness ==
    /\ bench.pc = "done"
    /\ bench.status = "success"
    /\ bench.errors = 1
    /\ bench.stored = 3
    /\ Len(sold_benchmarks) = 3
    /\ \A i \in 1..3 : sold_benchmarks[i].data_source = data_source("PSA", 10)

\* C23: once the marketplace has answered a query of the run with a rate-limit
\* response, the run issues no further market query: the remaining candidates
\* are left for the next cycle.
C23_RateLimitStopsRun ==
    [][ (bench.pc = "running" /\ bench.rate_limited) => QueriesIssued' = QueriesIssued ]_vars

----------------------------------------------------------------------------
(* Specification of the scorer over a card that Cherry lists as PSA 10 and    *)
(* Leo lists as CGC 10: one search identity, benchmarks of two tags           *)

MaxMatchClock == 5

MatchCherryFeeds ==
    { << << << Product(101, 1, <<"PSA", "10", "Pikachu">>, 10000, TRUE) >> >> >> }

MatchLeoFeeds ==
    { << << >>, << << Product(201, 1, <<"Pikachu", "CGC", "10">>, 10000, TRUE) >> >> >> }

\* the marketplace answers with comparables of one grader
MatchResponses ==
    { << MarketItem(<<"Pikachu", "PSA", "10">>, 15000) >>,
      << MarketItem(<<"Pikachu", "CGC", "10">>, 17500) >> }

\* number of benchmark rows after which no further benchmark run is followed
MaxMatchBenchmarks == 2

\* the tasks of a beat cycle in their order: the reconcile passes, the benchmark
\* run, the scoring pass; the Leo catalogue is reconciled once, in the first
\* cycle, and every marketplace request is answered
NextMatch ==
    \/ Rested /\ pass["leo"].pc # "running" /\ Tick(MaxMatchClock)
    \/ Rested /\ SetFeed("cherry", MatchCherryFeeds)
    \/ Rested /\ clock = 0 /\ pass["leo"].pc = "idle" /\ SetFeed("leo", MatchLeoFeeds)
    \/ bench.pc = "idle" /\ score.pc = "idle" /\ pass["leo"].pc # "running" /\ StartPass("cherry")
    \/ ProcessPage("cherry")
    \/ FinishPass("cherry")
    \/ Rested /\ clock = 0 /\ pass["leo"].pc = "idle" /\ StartPass("leo")
    \/ ProcessPage("leo")
    \/ EndCollection("leo")
    \/ FinishPass("leo")
    \/ /\ \A s \in Stores : pass[s].pc \in {"idle", "done"}
       /\ score.pc = "idle"
       /\ Len(sold_benchmarks) < MaxMatchBenchmarks
       /\ BenchStart
    \/ BenchNextQuery
    \/ BenchSkip
    \/ \E resp \in MatchResponses : BenchCompute(resp)
    \/ BenchFinish
    \/ /\ \A s \in Stores : pass[s].pc \in {"idle", "done"}
       /\ bench.pc \in {"idle", "done"}
       /\ score.pc \in {"idle", "retry"}
       /\ ScorePass
    \/ NextCycle

SpecMatch == InitScore /\ [][NextMatch]_vars

\* the benchmark of listing lid with the latest computed-at among the fresh ones
\* of its exact tag (the later row when two carry the same time)
Freshest(lid) ==
    CHOOSE x \in FreshBenchmarks(lid) : \A y \in FreshBenchmarks(lid) :
        \/ sold_benchmarks[y].calculated_at < sold_benchmarks[x].calculated_at
        \/ sold_benchmarks[y].calculated_at = sold_benchmarks[x].calculated_at /\ y <= x

\* this step creates row i or writes its prices or its verification time
Written(i) ==
    \/ i > Len(opportunities)
    \/ opportunities'[i].last_verified_at # opportunities[i].last_verified_at
    \/ opportunities'[i].market_price # opportunities[i].market_price
    \/ opportunities'[i].store_price # opportunities[i].store_price

\* C24: every Opportunity a scoring pass creates or refreshes for a listing
\* carries the market price of the benchmark with the latest computed-at among
\* those of the listing's identity, of its exact (grader, grade) tag and not
\* older than 24 hours; a listing without such a benchmark gets no Opportunity
\* created or refreshed.
C24_FreshestExactBenchmark ==
    [][ ScoreStep =>
          \A lid \in CherryIds : \A i \in OppsOf(opportunities', lid) :
             Written(i) =>
                /\ FreshBenchmarks(lid) # {}
                /\ opportunities'[i].market_price = sold_benchmarks[Freshest(lid)].market_price
      ]_vars

\* a completed pass over a PSA 10 listing whose identity has a PSA 10 benchmark
\* older than 24 hours and a fresh CGC 10 benchmark: the listing was checked,
\* nothing was found, and the Opportunity of an earlier pass was not refreshed
C24_Witness ==
    /\ score.pc = "done"
    /\ score.status = "success"
    /\ score.now = clock
    /\ score.listings_checked = 1
    /\ score.opportunities_found = 0
    /\ Len(listings["cherry"]) = 1
    /\ FreshBenchmarks(1) = {}
    /\ \E b \in 1..Len(sold_benchmarks) :
          /\ sold_benchmarks[b].search_query_id = listings["cherry"][1].search_query_id
          /\ sold_benchmarks[b].data_source = data_source("PSA", 10)
    /\ \E b \in 1..Len(sold_benchmarks) :
          /\ sold_benchmarks[b].search_query_id = listings["cherry"][1].search_query_id
          /\ sold_benchmarks[b].data_source = data_source("CGC", 10)
          /\ sold_benchmarks[b].calculated_at = clock
    /\ Len(opportunities) = 1
    /\ opportunities[1].market_price = 15000
    /\ opportunities[1].last_verified_at < clock

----------------------------------------------------------------------------
(* The sweep of the scoring pass *)

\* hours since Opportunity row o was last verified
VerifiedAge(o) == Hours(clock) - Hours(o.last_verified_at)

\* C25: after every completed scoring pass no active Opportunity has a
\* last-verified-at older than the staleness window of 6 hours.
C25_NoStaleActive ==
    [][ ScoreCompleted =>
          \A i \in 1..Len(opportunities') :
             opportunities'[i].is_active => VerifiedAge(opportunities'[i]) <= stale_hours
      ]_vars

\* a completed pass has left inactive an Opportunity last verified more than 6
\* hours ago, whose listing is still active at a price no longer below threshold
C25_Witness ==
    /\ score.pc = "done"
    /\ score.status = "success"
    /\ score.now = clock
    /\ \E i \in 1..Len(opportunities) :
          /\ ~opportunities[i].is_active
          /\ VerifiedAge(opportunities[i]) > stale_hours
          /\ listings["cherry"][opportunities[i].cherry_listing_id].is_active
          /\ listings["cherry"][opportunities[i].cherry_listing_id].price_aud = 12750

\* C26: after every completed scoring pass no active Opportunity refers to an
\* inactive listing, and the pass deletes no Opportunity row: every row is still
\* there, for the same listing.
C26_NoActiveOnInactiveListing ==
    [][ ScoreCompleted =>
          /\ \A i \in 1..Len(opportunities') :
                opportunities'[i].is_active =>
                   listings["cherry"][opportunities'[i].cherry_listing_id].is_active
          /\ Len(opportunities') >= Len(opportunities)
          /\ \A i \in 1..Len(opportunities) :
                /\ opportunities'[i].cherry_listing_id = opportunities[i].cherry_listing_id
                /\ opportunities'[i].discovered_at = opportunities[i].discovered_at
      ]_vars

\* a completed pass has left inactive an Opportunity verified inside the
\* staleness window whose listing a reconcile pass had deactivated
C26_Witness ==
    /\ score.pc = "done"
    /\ score.status = "success"
    /\ score.now = clock
    /\ \E i \in 1..Len(opportunities) :
          /\ ~opportunities[i].is_active
          /\ VerifiedAge(opportunities[i]) <= stale_hours
          /\ ~listings["cherry"][opportunities[i].cherry_listing_id].is_active

----------------------------------------------------------------------------
(* Specification of the scorer over two Cherry listings of one card whose     *)
(* prices and presence in the catalogue change from cycle to cycle            *)

MaxLapseClock == 2

\* both products below the threshold price; the first one gone; the second one
\* repriced above the threshold price
LapseFeeds ==
    { << << << Product(101, 1, <<"PSA", "10", "Pikachu">>, 10000, TRUE),
               Product(103, 1, <<"PSA", "10", "Pikachu">>, 10000, TRUE) >> >> >>,
      << << << Product(103, 1, <<"PSA", "10", "Pikachu">>, 10000, TRUE) >> >> >>,
      << << << Product(101, 1, <<"PSA", "10", "Pikachu">>, 10000, TRUE),
               Product(103, 1, <<"PSA", "10", "Pikachu">>, 16000, TRUE) >> >> >> }

LapseResponses == { << MarketItem(<<"Pikachu", "PSA", "10">>, 15000) >> }

\* the scoring task of a cycle, first attempt or retry
LapseScoreTask ==
    /\ pass["cherry"].pc \in {"idle", "done"}
    /\ bench.pc \in {"idle", "done"}
    /\ score.pc \in {"idle", "retry"}
    /\ ScorePass

\* a step of the reconcile pass or of the benchmark run that is under way
LapseTaskStep ==
    \/ ProcessPage("cherry")
    \/ FinishPass("cherry")
    \/ BenchNextQuery
    \/ BenchSkip
    \/ \E resp \in LapseResponses : BenchCompute(resp)
    \/ BenchFinish

NextLapse ==
    \/ Rested /\ Tick(MaxLapseClock)
    \/ Rested /\ SetFeed("cherry", LapseFeeds)
    \/ bench.pc = "idle" /\ score.pc = "idle" /\ StartPass("cherry")
    \/ /\ pass["cherry"].pc \in {"idle", "done"}
       /\ score.pc = "idle"
       /\ BenchStart
    \/ LapseTaskStep
    \/ LapseScoreTask
    \/ NextCycle

SpecLapse == InitScore /\ [][NextLapse]_vars

\* the scoring task can start: no other task of the cycle is under way
ScoreReady ==
    /\ pass["cherry"].pc \in {"idle", "done"}
    /\ bench.pc \in {"idle", "done"}
    /\ score.pc \in {"idle", "retry"}

TaskUnderWay == pass["cherry"].pc = "running" \/ bench.pc = "running"

\* beat starts the scoring task in every cycle (strong fairness of the scoring
\* task, its enabling condition written out), the worker carries every started
\* task to its end, and a cycle ends
SpecLapseFair ==
    /\ SpecLapse
    /\ WF_vars(NextCycle)
    /\ ([]<>ScoreReady => []<><<LapseScoreTask>>_vars)
    /\ ([]<>TaskUnderWay => []<><<LapseTaskStep>>_vars)

\* ids of the Opportunity rows of the exploration: one per listing
LapseRows == 1..2

\* Opportunity row i is active although its listing is not below the threshold
\* price and its last verification is older than the staleness window
Lapsed(i) ==
    /\ i <= Len(opportunities)
    /\ opportunities[i].is_active
    /\ ~Qualifies(opportunities[i].cherry_listing_id)
    /\ VerifiedAge(opportunities[i]) > stale_hours

\* Opportunity row i is inactive, or its listing is below the threshold price
Settled(i) ==
    /\ i <= Len(opportunities)
    /\ \/ ~opportunities[i].is_active
       \/ Qualifies(opportunities[i].cherry_listing_id)

\* C27: a scoring pass does not refresh the active Opportunity of a listing
\* that is not below the threshold price, and with scoring passes running in
\* every cycle such an Opportunity, once its last verification is older than
\* the staleness window, eventually is inactive (or its listing is below the
\* threshold price again).
C27_LapsedBecomesInactive ==
    /\ [][ ScoreStep =>
             \A i \in 1..Len(opportunities) :
                (opportunities[i].is_active /\ ~Qualifies(opportunities[i].cherry_listing_id)) =>
                   opportunities'[i].last_verified_at = opportunities[i].last_verified_at ]_vars
    /\ \A i \in LapseRows : Lapsed(i) ~> Settled(i)

----------------------------------------------------------------------------
(* Re-running the scoring pass *)

\* the table a scoring pass at time now leaves when it starts from the table
\* rows, over the listings and benchmarks of the current state; ok is FALSE
\* when the commit fails and the table stays as it was
Rescore(rows, now) ==
    LET st0 == [rows |-> rows, session |-> rows, dirty |-> {},
                pending |-> <<>>, opportunities_found |-> 0, listings_checked |-> 0]
        st1 == ScoreListings(st0, ScoredListings(listings["cherry"], now), now)
        swept == _deactivate_stale(rows, now)
    IN  IF OpportunityViolation(rows, st1.pending)
        THEN [ok |-> FALSE, rows |-> rows]
        ELSE [ok |-> TRUE, rows |-> Commit(swept, st1)]

\* at time t every timestamp is on the same side of its window as now: the same
\* listings are in scope with the same benchmarks, and the last verification of
\* every active row of the table is inside the staleness window
InsideWindows(rows, t) ==
    /\ ScoredListings(listings["cherry"], t) = ScoredListings(listings["cherry"], clock)
    /\ \A lid \in ScoredListings(listings["cherry"], t) :
          ScoringBenchmark(sold_benchmarks, listings["cherry"][lid], t) =
             ScoringBenchmark(sold_benchmarks, listings["cherry"][lid], clock)
    /\ \A i \in 1..Len(rows) :
          rows[i].is_active => Hours(t) - Hours(rows[i].last_verified_at) <= stale_hours

SameButVerified(a, b) ==
    /\ Len(a) = Len(b)
    /\ \A i \in 1..Len(a) :
          [a[i] EXCEPT !.last_verified_at = 0] = [b[i] EXCEPT !.last_verified_at = 0]

\* C28: when a scoring pass has completed, a further pass over the same
\* listings and benchmarks, at once or a tick later with every timestamp still
\* inside its window, leaves the same Opportunity rows with the same active
\* flags, prices, discount, profit and discovered-at; only last-verified-at
\* may differ.
C28_RescoreIdempotent ==
    [][ ScoreCompleted =>
          \A t \in clock..(clock + 1) :
             InsideWindows(opportunities', t) =>
                SameButVerified(opportunities', Rescore(opportunities', t).rows)
      ]_vars

\* a completed pass has refreshed the Opportunity of one listing, created
\* earlier, and left the Opportunity of the other listing inactive; a pass a
\* tick later would find every timestamp inside its window
C28_Witness ==
    /\ score.pc = "done"
    /\ score.status = "success"
    /\ score.now = clock
    /\ Len(opportunities) = 2
    /\ InsideWindows(opportunities, clock + 1)
    /\ Rescore(opportunities, clock + 1).ok
    /\ \E i, j \in 1..2 :
          /\ opportunities[i].is_active
          /\ opportunities[i].discovered_at < clock
          /\ opportunities[i].last_verified_at = clock
          /\ Rescore(opportunities, clock + 1).rows[i].last_verified_at = clock + 1
          /\ ~opportunities[j].is_active

----------------------------------------------------------------------------
(* The benchmark run of a manual scan *)

\* the queued messages of the benchmark task sent with kwargs force_all
ForceAllMessages ==
    {m \in BagToSet(celery.queue) : m.task = "fetch_sold_benchmarks" /\ ~m.accepted}

\* C29: a manual scan queues a benchmark run with force_all, and that run
\* executes: when a worker takes its message from the queue, the benchmark task
\* is in progress on a worker process from that moment on.
C29_ForceAllRuns ==
    [][ /\ celery'.scans > celery.scans =>
              \E m \in BagToSet(celery'.queue) :
                 /\ m.task = "fetch_sold_benchmarks"
                 /\ ~m.accepted
                 /\ CopiesIn(m, celery'.queue) > CopiesIn(m, celery.queue)
        /\ \A m \in ForceAllMessages :
              CopiesIn(m, celery'.queue) < CopiesIn(m, celery.queue) =>
                 \E w \in Workers :
                    /\ celery'.slot[w].task = "fetch_sold_benchmarks"
                    /\ celery'.slot[w].started = celery.now
      ]_vars

----------------------------------------------------------------------------
(* Detecting a listing again after its Opportunity was deactivated *)

\* the listing has Opportunity rows and none of them is active
OnlyInactive(lid) ==
    /\ OppsOf(opportunities, lid) # {}
    /\ \A i \in OppsOf(opportunities, lid) : ~opportunities[i].is_active

\* C30: when a listing whose Opportunity row is inactive is detected below the
\* threshold again, the scoring pass completes successfully and the listing
\* ends with exactly one Opportunity row, which is active.
C30_RedetectionReactivates ==
    [][ ScoreStep =>
          \A lid \in CherryIds :
             Qualifies(lid) /\ OnlyInactive(lid) =>
                /\ score'.status = "success"
                /\ Cardinality(OppsOf(opportunities', lid)) = 1
                /\ \A i \in OppsOf(opportunities', lid) : opportunities'[i].is_active
      ]_vars

----------------------------------------------------------------------------
(* The sweep and the refreshes of the same pass *)

\* C31: an active Opportunity whose last-verified-at is older than the
\* staleness window and whose listing is detected again in a scoring pass is
\* active, with last-verified-at set to the time of the pass, after the pass
\* commits: the sweep does not deactivate what the pass has just re-verified.
C31_SweepSparesReverified ==
    [][ ScoreCompleted =>
          \A lid \in CherryIds :
             \A i \in OppsOf(opportunities, lid) :
                (/\ opportunities[i].is_active
                 /\ VerifiedAge(opportunities[i]) > stale_hours
                 /\ Qualifies(lid)) =>
                    /\ opportunities'[i].is_active
                    /\ opportunities'[i].last_verified_at = clock
      ]_vars

----------------------------------------------------------------------------
(* The removed count of a reconcile pass *)

\* the listings of s that were active when the pass started and are inactive now
RemovedBy(s) ==
    {i \in 1..Len(pass[s].pre) : pass[s].pre[i].is_active /\ ~listings[s][i].is_active}

\* C32: the removed count a reconcile pass returns equals the number of
\* listings that were active before the pass and are inactive after it, for
\* every pass that accepted at least one item of its feed.
C32_RemovedCount ==
    \A s \in Stores :
        (Finished(s) /\ pass[s].matched_count > 0) =>
            pass[s].removed = Cardinality(RemovedBy(s))

----------------------------------------------------------------------------
(* Specification of a reconcile pass that fails after it has committed pages *)

MaxPartialClock == 1

\* catalogues in which a later page lists a new variant twice: the commit of
\* that page is refused for the duplicate key
CherryPartialFeeds ==
    { << << << Product(101, 1, <<"PSA", "10", "Pikachu">>, 10000, TRUE) >>,
            << Product(102, 1, <<"PSA", "10", "Eevee">>, 10000, TRUE) >> >> >>,
      << << << Product(101, 1, <<"PSA", "10", "Pikachu">>, 12750, TRUE) >>,
            << Product(103, 1, <<"PSA", "10", "Mew">>, 10000, TRUE),
               Product(103, 1, <<"PSA", "10", "Mew">>, 10000, TRUE) >> >> >> }

LeoPartialFeeds ==
    { << << << Product(201, 1, <<"Pikachu", "PSA", "10">>, 10000, TRUE) >> >>,
         << << Product(202, 1, <<"Eevee", "CGC", "10">>, 10000, TRUE) >> >> >>,
      << << << Product(201, 1, <<"Pikachu", "PSA", "10">>, 12750, TRUE) >> >>,
         << << Product(203, 1, <<"Mew", "CGC", "10">>, 10000, TRUE),
               Product(203, 1, <<"Mew", "CGC", "10">>, 10000, TRUE) >> >> >> }

PartialFeeds(s) == IF s = "cherry" THEN CherryPartialFeeds ELSE LeoPartialFeeds

NextPartial ==
    \/ Tick(MaxPartialClock)
    \/ \E s \in Stores : OthersEmpty(s) /\ SetFeed(s, PartialFeeds(s))
    \/ \E s \in Stores : StartPass(s)
    \/ \E s \in Stores : ProcessPage(s)
    \/ \E s \in Stores : EndCollection(s)
    \/ \E s \in Stores : FinishPass(s)

SpecPartial == Init /\ [][NextPartial]_vars

\* the items of the pages the running pass of s has committed: the earlier
\* collections and the earlier pages of the current one
CommittedItems(s) ==
    Flatten([c \in 1..(pass[s].collection - 1) |-> FetchedFrom(s, c, 1)])
        \o Flatten([pg \in 1..(pass[s].page - 1) |->
                       fetch_collection_products(s, pass[s].collection, pg)])

\* the pass of s ends at this step with an exception
PassFails(s) == pass[s].pc = "running" /\ pass'[s].status \in {"retrying", "failed"}

\* C33: when a reconcile pass fails after it has committed pages, what those
\* pages wrote stays: the step of the failure changes no listing and no
\* identity, and every variant accepted from a committed page has, after the
\* failure, an active row stamped by this pass with the variant's values.
C33_CommittedPagesSurvive ==
    [][ \A s \in Stores :
          PassFails(s) =>
             /\ listings' = listings
             /\ search_queries' = search_queries
             /\ \A i \in 1..Len(CommittedItems(s)) :
                   (/\ Accepted(s, CommittedItems(s)[i])
                    /\ \A k \in (i + 1)..Len(CommittedItems(s)) :
                          SameKey(CommittedItems(s)[k].prod, CommittedItems(s)[i].prod)
                             => ~Accepted(s, CommittedItems(s)[k])) =>
                      \E j \in 1..Len(listings'[s]) :
                         /\ Mirrors(s, listings'[s][j], CommittedItems(s)[i])
                         /\ listings'[s][j].last_seen_at = pass[s].now
      ]_vars

\* a pass at tick 1 has failed on its second page and is to be retried; the
\* listing of its first page, known from an earlier pass at another price,
\* carries the price and the stamp of the failed pass
C33_Witness ==
    \E s \in Stores :
        /\ pass[s].pc = "retry"
        /\ clock = 1
        /\ \E j \in 1..Len(listings[s]) :
              /\ listings[s][j].is_active
              /\ listings[s][j].price_aud = 12750
              /\ listings[s][j].scraped_at = 0
              /\ listings[s][j].last_seen_at = 1
        /\ \E j \in 1..Len(listings[s]) : ~listings[s][j].is_active

----------------------------------------------------------------------------
(* The transaction of the scoring pass *)

\* the scoring pass ends at this step with an exception
ScoreFailed == ScoreStep /\ score'.status \in {"retrying", "failed"}

\* C34: when a scoring pass fails, the creations and refreshes it made for the
\* listings it had processed stay persisted: every listing found below the
\* threshold whose Opportunity the pass created (no row before) or refreshed
\* (an active row before) has the created or refreshed row after the failure.
C34_PerListingTransactions ==
    [][ ScoreFailed =>
          \A lid \in CherryIds :
             (Qualifies(lid) /\ ~OnlyInactive(lid)) => (Created(lid) \/ Refreshed(lid))
      ]_vars

----------------------------------------------------------------------------
(* Specification of one benchmark run over more candidates than a run may   *)
(* query, listed by the two storefronts at different times                  *)

MaxOrderClock == 1

\* Cherry lists the card Leo lists as Mew PSA 10
OrderCherryFeeds ==
    { << << << Product(101, 1, <<"PSA", "10", "Mew">>, 10000, TRUE) >> >> >> }

\* the marketplace has a comparable for every tag and language
OrderResponses ==
    { << MarketItem(<<"Pikachu", "PSA", "10">>, 15000),
         MarketItem(<<"Pikachu", "CGC", "10">>, 15000),
         MarketItem(<<"JAPANESE", "Pikachu", "PSA", "10">>, 15000),
         MarketItem(<<"JAPANESE", "Pikachu", "CGC", "10">>, 15000) >> }

OrderFeeds(s) == IF s = "cherry" THEN OrderCherryFeeds ELSE {QuotaFeed}

\* the reconcile passes of the two storefronts run in cycles of their own; one
\* benchmark run is followed, started when no pass is running
NextOrder ==
    \/ bench.pc = "idle" /\ Tick(MaxOrderClock)
    \/ \E s \in Stores : bench.pc = "idle" /\ pass[s].pc = "idle" /\ SetFeed(s, OrderFeeds(s))
    \/ \E s \in Stores : bench.pc = "idle" /\ pass[s].pc = "idle" /\ StartPass(s)
    \/ \E s \in Stores : ProcessPage(s)
    \/ \E s \in Stores : EndCollection(s)
    \/ \E s \in Stores : FinishPass(s)
    \/ bench.pc = "idle" /\ (\A s \in Stores : pass[s].pc # "running") /\ BenchStart
    \/ BenchNextQuery
    \/ \E resp \in OrderResponses : BenchCompute(resp)
    \/ BenchFinish

SpecOrder == InitScore /\ [][NextOrder]_vars

\* the times at which the active listings of tuple c were last seen
Activity(c) ==
    UNION { { listings[s][i].last_seen_at :
                i \in {j \in 1..Len(listings[s]) :
                          /\ listings[s][j].is_active
                          /\ listings[s][j].search_query_id = c[1]
                          /\ data_source(listings[s][j].grader, listings[s][j].grade) = c[2]} } :
            s \in Stores }

\* the most recent listing activity of candidate c
Recency(c) == CHOOSE t \in Activity(c) : \A u \in Activity(c) : u <= t

\* the run has stored a benchmark for tuple c
Computed(c) ==
    \E i \in 1..Len(sold_benchmarks) :
        /\ sold_benchmarks[i].search_query_id = c[1]
        /\ sold_benchmarks[i].data_source = c[2]
        /\ sold_benchmarks[i].calculated_at = bench.now

\* C35: a benchmark run over more stale candidates than the per-run maximum
\* computes them in order of recency of listing activity: when the run has
\* ended, no computed tuple has older listing activity than a candidate the
\* run left uncomputed.
C35_MostRecentFirst ==
    (bench.pc = "done" /\ bench.status = "success") =>
        \A c \in Candidates, d \in Candidates :
            (Computed(c) /\ ~Computed(d)) => Recency(d) <= Recency(c)

----------------------------------------------------------------------------
(* What each stage writes *)

\* a step of the reconcile pass of s: its start or a step of its loop
ReconcileStep(s) ==
    /\ pass'[s] # pass[s]
    /\ pass[s].pc = "running" \/ pass'[s].pc = "running"

\* a step of the benchmark run: its start or a step of its loop
BenchStep ==
    /\ bench' # bench
    /\ bench.pc = "running" \/ bench'.pc = "running"

\* C36: each stage writes only its own entities. A step of the reconcile pass
\* of one storefront changes no listing of the other storefront, no benchmark
\* and no Opportunity; a step of the benchmark run changes no listing, no search
\* identity and no Opportunity; a scoring pass changes no listing and no
\* benchmark.
C36_StagesWriteOwnEntities ==
    [][ /\ \A s \in Stores :
              ReconcileStep(s) =>
                 /\ \A o \in Stores \ {s} : listings'[o] = listings[o]
                 /\ sold_benchmarks' = sold_benchmarks
                 /\ opportunities' = opportunities
        /\ BenchStep =>
              /\ listings' = listings
              /\ search_queries' = search_queries
              /\ opportunities' = opportunities
        /\ ScoreStep =>
              /\ listings' = listings
              /\ sold_benchmarks' = sold_benchmarks
      ]_vars

\* a cycle in which the three stages have written next to the rows of the
\* others: the Cherry pass updated a listing, the benchmark run stored a
\* benchmark and the scoring pass committed, with Leo listings in the table and
\* an Opportunity from an earlier cycle
C36_Witness ==
    /\ pass["cherry"].pc = "done" /\ pass["cherry"].updated_count > 0
    /\ bench.pc = "done" /\ bench.stored > 0
    /\ score.pc = "done" /\ score.status = "success"
    /\ listings["leo"] # <<>>
    /\ \E i \in 1..Len(opportunities) : opportunities[i].discovered_at < clock

----------------------------------------------------------------------------
(* Specification of the manual scans with the scheduler disabled: the only   *)
(* tasks are those the scan requests queue                                   *)

MaxScanTicks == 6

\* time passes with scheduler_enabled off: a free worker takes a due message at
\* once, a task that reaches task_time_limit is killed
ScanTick ==
    /\ celery.now < MaxScanTicks
    /\ ~(Due # {} /\ \E w \in Workers : ~Busy(w))
    /\ celery' = [celery EXCEPT
          !.now = @ + 1,
          !.slot = [w \in Workers |->
                      IF Busy(w) /\ celery.now + 1 - celery.slot[w].started >= Ticks(task_time_limit)
                      THEN FreeSlot ELSE celery.slot[w]]]
    /\ UNCHANGED Data

NextScan ==
    \/ run_scan_now
    \/ run_full_scan_now
    \/ \E w \in Workers : WorkerStart(w)
    \/ \E w \in Workers : WorkerReturn(w)
    \/ \E w \in Workers : WorkerRetry(w)
    \/ ScanTick

SpecScan == InitScore /\ [][NextScan]_vars

FetchTasks == {"fetch_cherry_listings", "fetch_leo_listings"}

ScoreTasks == {"identify_cherry_opportunities", "identify_leo_opportunities"}

\* a task of the set is in progress on a worker process or waits in the queue
Unfinished(tasks) ==
    \/ \E w \in Workers : celery.slot[w].task \in tasks
    \/ \E m \in BagToSet(celery.queue) : m.task \in tasks /\ m.accepted

\* a worker process starts a task of the set at this step
Starts(tasks) ==
    \E w \in Workers : celery.slot[w].task \notin tasks /\ celery'.slot[w].task \in tasks

----------------------------------------------------------------------------
(* The stored market price and the scope *)

\* C38: the market price of every persisted benchmark, the median rounded to
\* 0.01, lies in the scope: price floor <= market_price < price ceiling.
C38_StoredPriceInScope ==
    \A i \in 1..Len(sold_benchmarks) :
        /\ price_floor_aud <= sold_benchmarks[i].market_price
        /\ sold_benchmarks[i].market_price < price_ceiling_aud

----------------------------------------------------------------------------
(* A key that occurs more than once in the feed *)

\* items i and k of the feed of s are accepted occurrences of one key
Repeated(s, i, k) ==
    /\ i # k
    /\ SameKey(FeedItems(s)[i].prod, FeedItems(s)[k].prod)
    /\ Accepted(s, FeedItems(s)[i])
    /\ Accepted(s, FeedItems(s)[k])

\* the pass of s ends at this step, with a result or with an exception
PassEnds(s) == pass[s].pc = "running" /\ pass'[s].pc # "running"

\* C39: a reconcile pass whose feed holds the same (product id, variant id)
\* more than once, in one page or in different pages or collections, ends
\* with status success and leaves exactly one row for that key, an active one,
\* also when the key had no row before the pass.
C39_RepeatedKeyInFeed ==
    [][ \A s \in Stores :
          PassEnds(s) =>
             \A i \in 1..Len(FeedItems(s)), k \in 1..Len(FeedItems(s)) :
                Repeated(s, i, k) =>
                   /\ pass'[s].status = "success"
                   /\ Cardinality({j \in 1..Len(listings'[s]) :
                                      SameKey(listings'[s][j], FeedItems(s)[i].prod)}) = 1
                   /\ \A j \in 1..Len(listings'[s]) :
                         SameKey(listings'[s][j], FeedItems(s)[i].prod)
                            => listings'[s][j].is_active
      ]_vars

----------------------------------------------------------------------------
(* Specification of repeated benchmark runs over more candidates than a run *)
(* may query, when the marketplace has no comparable for any of them        *)

MaxStarveErrors == 1

\* the marketplace finds nothing: the candidate is filtered out
StarveResponses == { << >> }

\* the Leo catalogue is reconciled once; from then on one benchmark run follows
\* the other, as in the cycles of the beat schedule
NextStarve ==
    \/ bench.pc = "idle" /\ pass["leo"].pc = "idle" /\ SetFeed("leo", {QuotaFeed})
    \/ bench.pc = "idle" /\ pass["leo"].pc = "idle" /\ StartPass("leo")
    \/ ProcessPage("leo")
    \/ EndCollection("leo")
    \/ FinishPass("leo")
    \/ pass["leo"].pc = "done" /\ BenchStart
    \/ BenchNextQuery
    \/ \E resp \in StarveResponses : BenchCompute(resp)
    \/ bench.errors < MaxStarveErrors /\ BenchFetchError
    \/ BenchFinish

SpecStarve == InitScore /\ [][NextStarve]_vars

\* a step of a task that was started: the reconcile pass, then the benchmark
\* runs with every request answered
StarveTaskStep ==
    \/ ProcessPage("leo")
    \/ EndCollection("leo")
    \/ FinishPass("leo")
    \/ pass["leo"].pc = "done" /\ BenchStart
    \/ BenchNextQuery
    \/ \E resp \in StarveResponses : BenchCompute(resp)
    \/ BenchFinish

\* a task is running or the next benchmark run can start
StarveUnderWay == pass["leo"].pc \in {"running", "done"}

\* the worker carries every started task to its end and beat starts a
\* benchmark run in every cycle: weak fairness of the return of a run and of
\* the task step, the enabling condition of the latter written out
SpecStarveFair ==
    /\ SpecStarve
    /\ WF_vars(BenchFinish)
    /\ ([]<>StarveUnderWay => []<><<StarveTaskStep>>_vars)

\* the tuples of the catalogue: one identity per product of the PSA collection
\* next to the seeded ones, under either tag
StarveTuples ==
    (1..(Len(SeedQueries) + Len(QuotaFeed[1][1])))
        \X {data_source("PSA", 10), data_source("CGC", 10)}

\* tuple c has an active listing and no benchmark inside the minimum refresh age
Starving(c) ==
    /\ c \in Candidates
    /\ LET latest == LatestBenchmark(sold_benchmarks, c[1], c[2])
       IN  \/ latest = 0
           \/ Hours(sold_benchmarks[latest].calculated_at)
                 < Hours(clock) - sold_benchmark_min_age_hours

\* a run is at tuple c and issues its market query next
AtQuery(c) ==
    /\ bench.pc = "running"
    /\ bench.combos # <<>>
    /\ bench.q = c[1]
    /\ data_source(Head(bench.combos)[1], Head(bench.combos)[2]) = c[2]
    /\ ~HasRecentBenchmark(Candidate)
    /\ bench.processed < sold_benchmark_max_queries_per_run

\* C40: under repeated benchmark runs every candidate tuple that keeps an
\* active listing and has no fresh benchmark eventually gets a market query,
\* also when the other candidates are filtered out or fail in every run.
C40_NoCandidateStarved == \A c \in StarveTuples : Starving(c) ~> AtQuery(c)

====
